---- MODULE Spec2Model ----
(***************************************************************************)
(* Model of the dependency resolver of audit-metrics (FileAnalyzer in      *)
(* src/file_analyzer.py): pattern compiler, file classifier, import        *)
(* resolution and the depth-bounded, visited-guarded traversal.            *)
(*                                                                         *)
(* Strings are sequences of one-character strings, so that the textual     *)
(* replacements of the pattern compiler and the regular-expression search  *)
(* are computed character by character, as the code computes them.         *)
(***************************************************************************)
EXTENDS Naturals, Integers, Sequences, FiniteSets, TLC

(***************************************************************************)
(* String helpers (Python str methods used by the code)                    *)
(***************************************************************************)

StartsWith(s, p) == Len(p) <= Len(s) /\ SubSeq(s, 1, Len(p)) = p

EndsWith(s, p) == Len(p) <= Len(s) /\ SubSeq(s, Len(s) - Len(p) + 1, Len(s)) = p

Drop(s, n) == SubSeq(s, n + 1, Len(s))

RECURSIVE Replace(_, _, _)
\* str.replace(old, new): left to right, non-overlapping, one pass
Replace(s, old, new) ==
    IF Len(s) < Len(old) \/ Len(s) = 0 THEN s
    ELSE IF SubSeq(s, 1, Len(old)) = old
         THEN new \o Replace(Drop(s, Len(old)), old, new)
         ELSE <<s[1]>> \o Replace(Tail(s), old, new)

RECURSIVE Contains(_, _)
\* the `in` operator on strings
Contains(s, p) ==
    IF Len(s) < Len(p) THEN FALSE
    ELSE StartsWith(s, p) \/ Contains(Tail(s), p)

RECURSIVE Split(_, _)
\* str.split(sep) for a one-character separator
Split(s, sep) ==
    IF \A i \in 1..Len(s) : s[i] # sep THEN <<s>>
    ELSE LET k == CHOOSE i \in 1..Len(s) :
                      s[i] = sep /\ \A j \in 1..(i - 1) : s[j] # sep
         IN  <<SubSeq(s, 1, k - 1)>> \o Split(Drop(s, k), sep)

RECURSIVE Join(_, _)
\* sep.join(parts)
Join(parts, sep) ==
    IF parts = <<>> THEN <<>>
    ELSE IF Len(parts) = 1 THEN parts[1]
    ELSE parts[1] \o sep \o Join(Tail(parts), sep)

RECURSIVE LStrip(_, _)
\* str.lstrip(c) for one character
LStrip(s, c) == IF s # <<>> /\ s[1] = c THEN LStrip(Tail(s), c) ELSE s

UpperCase == <<"A","B","C","D","E","F","G","H","I","J","K","L","M",
               "N","O","P","Q","R","S","T","U","V","W","X","Y","Z">>

LowerCase == <<"a","b","c","d","e","f","g","h","i","j","k","l","m",
               "n","o","p","q","r","s","t","u","v","w","x","y","z">>

LowerChar(c) ==
    IF \E i \in 1..26 : UpperCase[i] = c
    THEN LowerCase[CHOOSE i \in 1..26 : UpperCase[i] = c]
    ELSE c

\* str.lower()
Lower(s) == [i \in 1..Len(s) |-> LowerChar(s[i])]

WhiteSpace == {" ", "\t", "\n"}

\* truth value of p.strip(): some character is not whitespace
StripNonEmpty(p) == \E i \in 1..Len(p) : p[i] \notin WhiteSpace

(***************************************************************************)
(* Regular expressions: the subset of Python's re syntax that              *)
(* glob_to_regex can emit (literals, backslash escapes, `.`, the class     *)
(* `[^/]`, groups, and the postfix `*`).  ReEnds(r, s, S) is the set of    *)
(* positions at which a match of r can end when it starts at a position    *)
(* of S; Search is re.Pattern.search.                                      *)
(***************************************************************************)

RECURSIVE GroupClose(_, _, _)
\* index of the parenthesis closing the group opened before position i
GroupClose(r, i, open) ==
    IF i > Len(r) THEN Len(r)
    ELSE IF r[i] = "\\" THEN GroupClose(r, i + 2, open)
    ELSE IF r[i] = "[" THEN GroupClose(r, i + 4, open)
    ELSE IF r[i] = "(" THEN GroupClose(r, i + 1, open + 1)
    ELSE IF r[i] = ")" THEN (IF open = 1 THEN i ELSE GroupClose(r, i + 1, open - 1))
    ELSE GroupClose(r, i + 1, open)

AtomLen(r) ==
    IF r[1] = "\\" THEN 2
    ELSE IF r[1] = "[" THEN 4
    ELSE IF r[1] = "(" THEN GroupClose(r, 2, 1)
    ELSE 1

\* does the one-character atom accept character c
CharOk(atom, c) ==
    IF atom[1] = "\\" THEN c = atom[2]
    ELSE IF atom[1] = "[" THEN c # "/"
    ELSE IF atom[1] = "." THEN c # "\n"
    ELSE c = atom[1]

GroupBody(atom) ==
    IF Len(atom) >= 4 /\ atom[2] = "?" /\ atom[3] = ":"
    THEN SubSeq(atom, 4, Len(atom) - 1)
    ELSE SubSeq(atom, 2, Len(atom) - 1)

RECURSIVE ReEnds(_, _, _)
RECURSIVE StepAtom(_, _, _)
RECURSIVE StarEnds(_, _, _)

StepAtom(atom, s, S) ==
    IF atom[1] = "("
    THEN ReEnds(GroupBody(atom), s, S)
    ELSE {p + 1 : p \in {q \in S : q <= Len(s) /\ CharOk(atom, s[q])}}

StarEnds(atom, s, S) ==
    LET T == S \cup StepAtom(atom, s, S)
    IN  IF T = S THEN S ELSE StarEnds(atom, s, T)

ReEnds(r, s, S) ==
    IF r = <<>> \/ S = {} THEN S
    ELSE LET n == AtomLen(r)
             atom == SubSeq(r, 1, n)
             starred == n < Len(r) /\ r[n + 1] = "*"
             rest == Drop(r, IF starred THEN n + 1 ELSE n)
         IN  ReEnds(rest, s, IF starred THEN StarEnds(atom, s, S)
                                        ELSE StepAtom(atom, s, S))

\* re.compile(r).search(s) is not None
Search(r, s) == ReEnds(r, s, 1..(Len(s) + 1)) # {}

(***************************************************************************)
(* Pattern compiler                                                        *)
(***************************************************************************)

MatchAll == <<".", "*">>

EscapedChars == <<".", "+", "(", ")", "|", "^", "$", "{", "}", "[", "]">>

RECURSIVE EscapeAll(_, _)
\* the chain of .replace(c, '\\' + c) calls, in source order
EscapeAll(p, i) ==
    IF i > Len(EscapedChars) THEN p
    ELSE EscapeAll(Replace(p, <<EscapedChars[i]>>, <<"\\", EscapedChars[i]>>), i + 1)

\* as glob_to_regex, the slash of the `*/` translation lost
glob_to_regex_SlashLost(pattern) ==
    IF pattern = <<>> THEN MatchAll
    ELSE LET p0 == Replace(pattern, <<"\\">>, <<"/">>)
             p1 == EscapeAll(p0, 1)
             p2 == Replace(p1, <<"*", "*", "/">>,
                           <<"(", "?", ":", ".", "*", "/", ")", "*">>)
             p3 == Replace(p2, <<"*", "/">>, <<"[", "^", "/", "]", "*">>)
             p4 == Replace(p3, <<"*">>, <<"[", "^", "/", "]", "*">>)
             p5 == Replace(p4, <<"?">>, <<"[", "^", "/", "]">>)
         IN  p5

glob_to_regex(pattern) ==
    IF pattern = <<>> THEN MatchAll
    ELSE LET p0 == Replace(pattern, <<"\\">>, <<"/">>)
             p1 == EscapeAll(p0, 1)
             p2 == Replace(p1, <<"*", "*", "/">>,
                           <<"(", "?", ":", ".", "*", "/", ")", "*">>)
             p3 == Replace(p2, <<"*", "/">>, <<"[", "^", "/", "]", "*", "/">>)
             p4 == Replace(p3, <<"*">>, <<"[", "^", "/", "]", "*">>)
             p5 == Replace(p4, <<"?">>, <<"[", "^", "/", "]">>)
         IN  p5

RECURSIVE CompileEach(_)
CompileEach(patterns) ==
    IF patterns = <<>> THEN <<>>
    ELSE (IF StripNonEmpty(patterns[1]) THEN <<glob_to_regex(patterns[1])>> ELSE <<>>)
         \o CompileEach(Tail(patterns))

\* FileAnalyzer._compile_patterns: list of glob strings -> list of regexes
compile_patterns(patterns) ==
    IF patterns = <<>> THEN <<MatchAll>> ELSE CompileEach(patterns)

(***************************************************************************)
(* Paths (pathlib.Path and FileAnalyzer._normalize_path)                   *)
(***************************************************************************)

Slash == <<"/">>

\* the directory the analyzer is built on, Path(workspace_dir).absolute()
WorkspaceDir == <<"/", "t", "m", "p", "/", "w">>

InWs(rel) == WorkspaceDir \o Slash \o rel

RECURSIVE Collapse(_, _)
\* Path.resolve() on the segments of an absolute path: drops "" and ".",
\* and lets ".." remove the segment before it (the root is its own parent)
Collapse(segs, acc) ==
    IF segs = <<>> THEN acc
    ELSE LET h == segs[1]
         IN  IF h = <<>> \/ h = <<".">> THEN Collapse(Tail(segs), acc)
             ELSE IF h = <<".", ".">>
                  THEN Collapse(Tail(segs),
                                IF acc = <<>> THEN acc ELSE SubSeq(acc, 1, Len(acc) - 1))
                  ELSE Collapse(Tail(segs), Append(acc, h))

PrivatePrefix == <<"/", "p", "r", "i", "v", "a", "t", "e", "/">>

\* FileAnalyzer._normalize_path
normalize_path(path) ==
    LET Resolved(p) == Slash \o Join(Collapse(Split(p, "/"), <<>>), Slash)
        Stripped(normalized) ==
            IF StartsWith(normalized, PrivatePrefix) THEN Drop(normalized, 8) ELSE normalized
    IN  Stripped(Replace(Resolved(path), <<"\\">>, Slash))

\* Path(a) / b: an absolute right operand replaces the left one
PathJoin(a, b) ==
    IF b # <<>> /\ b[1] = "/" THEN b
    ELSE IF b = <<>> THEN a
    ELSE IF a = Slash THEN a \o b ELSE a \o Slash \o b

\* the segments pathlib keeps for an absolute path ("" and "." are dropped)
PathParts(path) == SelectSeq(Split(path, "/"), LAMBDA g : g # <<>> /\ g # <<".">>)

\* Path(path).parent
Parent(path) ==
    LET Of(parts) == IF Len(parts) <= 1 THEN Slash
                     ELSE Slash \o Join(SubSeq(parts, 1, Len(parts) - 1), Slash)
    IN  Of(PathParts(path))

\* Path(path).name
BaseName(path) ==
    LET Of(parts) == IF parts = <<>> THEN <<>> ELSE parts[Len(parts)]
    IN  Of(PathParts(path))

\* Path(path).suffix: from the last dot of the name, unless the name starts with it
Suffix(path) ==
    LET From(name, dots) ==
            IF dots = {} \/ name[Len(name)] = "." THEN <<>>
            ELSE SubSeq(name, CHOOSE i \in dots : \A j \in dots : j <= i, Len(name))
        Of(name) == From(name, {i \in 2..Len(name) : name[i] = "."})
    IN  Of(BaseName(path))

\* code-point order of the characters that occur in file names
AsciiChars == <<".", "0", "1", "2", "3", "4", "5", "6", "7", "8", "9">>
              \o UpperCase \o <<"_">> \o LowerCase

Ord(c) == IF \E i \in 1..Len(AsciiChars) : AsciiChars[i] = c
          THEN CHOOSE i \in 1..Len(AsciiChars) : AsciiChars[i] = c
          ELSE 0

RECURSIVE StrLess(_, _)
\* str.__lt__
StrLess(a, b) ==
    IF b = <<>> THEN FALSE
    ELSE IF a = <<>> THEN TRUE
    ELSE IF a[1] = b[1] THEN StrLess(Tail(a), Tail(b))
    ELSE Ord(a[1]) < Ord(b[1])

RECURSIVE PartsLess(_, _)
\* list.__lt__ on the parts of two paths
PartsLess(a, b) ==
    IF b = <<>> THEN FALSE
    ELSE IF a = <<>> THEN TRUE
    ELSE IF a[1] = b[1] THEN PartsLess(Tail(a), Tail(b))
    ELSE StrLess(a[1], b[1])

PathLess_Greater(a, b) == PartsLess(PathParts(b), PathParts(a))

\* Path.__lt__
PathLess(a, b) == PartsLess(PathParts(a), PathParts(b))

(***************************************************************************)
(* Workspaces: the files on disk and the statements of their text          *)
(***************************************************************************)

pSrcA == <<"s", "r", "c", "/", "A", ".", "s", "o", "l">>

pTestsUnitFoo == <<"t", "e", "s", "t", "s", "/", "u", "n", "i", "t", "/", "F", "o", "o", ".", "s", "o", "l">>

pTestsFoo == <<"t", "e", "s", "t", "s", "/", "F", "o", "o", ".", "s", "o", "l">>

pMocksMock == <<"m", "o", "c", "k", "s", "/", "M", "o", "c", "k", ".", "s", "o", "l">>

pContractsMocksMock == <<"c", "o", "n", "t", "r", "a", "c", "t", "s", "/", "m", "o", "c", "k", "s", "/", "M", "o", "c", "k", ".", "s", "o", "l">>

pA == <<"c", "o", "n", "t", "r", "a", "c", "t", "s", "/", "A", ".", "s", "o", "l">>

pB == <<"c", "o", "n", "t", "r", "a", "c", "t", "s", "/", "B", ".", "s", "o", "l">>

pC == <<"c", "o", "n", "t", "r", "a", "c", "t", "s", "/", "C", ".", "s", "o", "l">>

pD == <<"c", "o", "n", "t", "r", "a", "c", "t", "s", "/", "D", ".", "s", "o", "l">>

pLibE == <<"l", "i", "b", "/", "E", ".", "s", "o", "l">>

pCargo == <<"C", "a", "r", "g", "o", ".", "t", "o", "m", "l">>

pMainSol == <<"c", "o", "n", "t", "r", "a", "c", "t", "s", "/", "M", "a", "i", "n", ".", "s", "o", "l">>

pRsA == <<"s", "r", "c", "/", "a", ".", "r", "s">>

pRsB == <<"s", "r", "c", "/", "b", ".", "r", "s">>

pRsC == <<"s", "r", "c", "/", "c", ".", "r", "s">>

rUpTestsUnitFoo == <<".", ".", "/", "t", "e", "s", "t", "s", "/", "u", "n", "i", "t", "/", "F", "o", "o", ".", "s", "o", "l">>

rTestsFoo == <<"t", "e", "s", "t", "s", "/", "F", "o", "o", ".", "s", "o", "l">>

rMocksMock == <<"m", "o", "c", "k", "s", "/", "M", "o", "c", "k", ".", "s", "o", "l">>

rContractsMocksMock == <<"c", "o", "n", "t", "r", "a", "c", "t", "s", "/", "m", "o", "c", "k", "s", "/", "M", "o", "c", "k", ".", "s", "o", "l">>

rDotB == <<".", "/", "B", ".", "s", "o", "l">>

rDotC == <<".", "/", "C", ".", "s", "o", "l">>

rDotD == <<".", "/", "D", ".", "s", "o", "l">>

rDotA == <<".", "/", "A", ".", "s", "o", "l">>

rE == <<"E", ".", "s", "o", "l">>

rSrcARs == <<"s", "r", "c", "/", "a", ".", "r", "s">>

nB == <<"B">>

nC == <<"C">>

nb == <<"b">>

nc == <<"c">>

pVault == <<"c", "o", "n", "t", "r", "a", "c", "t", "s", "/", "V", "a", "u", "l", "t", ".", "s", "o", "l">>

pOwnable == <<"c", "o", "n", "t", "r", "a", "c", "t", "s", "/", "O", "w", "n", "a", "b", "l", "e", ".", "s", "o", "l">>

pBroken == <<"c", "o", "n", "t", "r", "a", "c", "t", "s", "/", "B", "r", "o", "k", "e", "n", ".", "s", "o", "l">>

pSecret == <<"c", "o", "n", "t", "r", "a", "c", "t", "s", "/", "S", "e", "c", "r", "e", "t", ".", "s", "o", "l">>

pLibUpper == <<"c", "o", "n", "t", "r", "a", "c", "t", "s", "/", "L", "i", "b", ".", "S", "O", "L">>

rDotBroken == <<".", "/", "B", "r", "o", "k", "e", "n", ".", "s", "o", "l">>

rDotMissing == <<".", "/", "M", "i", "s", "s", "i", "n", "g", ".", "s", "o", "l">>

rDotLibUpper == <<".", "/", "L", "i", "b", ".", "S", "O", "L">>

rDotSecret == <<".", "/", "S", "e", "c", "r", "e", "t", ".", "s", "o", "l">>

nOwnable == <<"O", "w", "n", "a", "b", "l", "e">>

nPausable == <<"P", "a", "u", "s", "a", "b", "l", "e">>

pPkgCargo == <<"p", "k", "g", "/", "C", "a", "r", "g", "o", ".", "t", "o", "m", "l">>

pPkgMain == <<"p", "k", "g", "/", "s", "r", "c", "/", "m", "a", "i", "n", ".", "r", "s">>

pPkgHelpers == <<"p", "k", "g", "/", "u", "t", "i", "l", "s", "/", "h", "e", "l", "p", "e", "r", "s", ".", "r", "s">>

pPkgUtilsMod == <<"p", "k", "g", "/", "u", "t", "i", "l", "s", "/", "m", "o", "d", ".", "r", "s">>

mCrateUtilsHelpers == <<"c", "r", "a", "t", "e", ":", ":", "u", "t", "i", "l", "s", ":", ":", "h", "e", "l", "p", "e", "r", "s">>

mUtilsHelpers == <<"u", "t", "i", "l", "s", ":", ":", "h", "e", "l", "p", "e", "r", "s">>

pPkgInner == <<"p", "k", "g", "/", "s", "r", "c", "/", "d", "e", "e", "p", "/", "i", "n", "n", "e", "r", ".", "r", "s">>

mSuperSuperUtilsHelpers == <<"s", "u", "p", "e", "r", ":", ":", "s", "u", "p", "e", "r", ":", ":", "u", "t", "i", "l", "s", ":", ":", "h", "e", "l", "p", "e", "r", "s">>

pToken == <<"c", "o", "n", "t", "r", "a", "c", "t", "s", "/", "T", "o", "k", "e", "n", ".", "s", "o", "l">>

pMid == <<"c", "o", "n", "t", "r", "a", "c", "t", "s", "/", "M", "i", "d", ".", "s", "o", "l">>

pBase == <<"c", "o", "n", "t", "r", "a", "c", "t", "s", "/", "B", "a", "s", "e", ".", "s", "o", "l">>

pIBase == <<"c", "o", "n", "t", "r", "a", "c", "t", "s", "/", "I", "B", "a", "s", "e", ".", "s", "o", "l">>

nMid == <<"M", "i", "d">>

nBase == <<"B", "a", "s", "e">>

pRootLib == <<"L", "i", "b", ".", "s", "o", "l">>

pHereLib == <<"m", "o", "d", "/", "a", "/", "L", "i", "b", ".", "s", "o", "l">>

pRef == <<"m", "o", "d", "/", "a", "/", "R", "e", "f", ".", "s", "o", "l">>

pSrcUtil == <<"s", "r", "c", "/", "U", "t", "i", "l", ".", "s", "o", "l">>

pHereUtil == <<"m", "o", "d", "/", "a", "/", "U", "t", "i", "l">>

pUp == <<"m", "o", "d", "/", "U", "p", ".", "s", "o", "l">>

pHereInterfacesUp == <<"m", "o", "d", "/", "a", "/", "i", "n", "t", "e", "r", "f", "a", "c", "e", "s", "/", "U", "p", ".", "s", "o", "l">>

pRootOnly == <<"O", "n", "l", "y", ".", "s", "o", "l">>

pContractsOnly == <<"c", "o", "n", "t", "r", "a", "c", "t", "s", "/", "O", "n", "l", "y", ".", "s", "o", "l">>

iLib == <<"L", "i", "b", ".", "s", "o", "l">>

iUtil == <<"U", "t", "i", "l">>

iUp == <<"U", "p", ".", "s", "o", "l">>

iOnly == <<"O", "n", "l", "y", ".", "s", "o", "l">>

iMissing == <<"M", "i", "s", "s", "i", "n", "g", ".", "s", "o", "l">>

iDotOnly == <<".", "/", "O", "n", "l", "y", ".", "s", "o", "l">>

iDotOnlyBare == <<".", "/", "O", "n", "l", "y">>

iDotLib == <<".", "/", "L", "i", "b", ".", "s", "o", "l">>

iDotDotUp == <<".", ".", "/", "U", "p">>

pIn == <<"c", "o", "n", "t", "r", "a", "c", "t", "s", "/", "I", "n", ".", "s", "o", "l">>

pOut == <<"/", "t", "m", "p", "/", "o", "t", "h", "e", "r", "/", "O", "u", "t", ".", "s", "o", "l">>

gTestsAnySol == <<"t", "e", "s", "t", "s", "/", "*", "*", "/", "*", ".", "s", "o", "l">>

gAnyMocksAny == <<"*", "/", "m", "o", "c", "k", "s", "/", "*">>

gSrcAny == <<"s", "r", "c", "/", "*">>

gNoMatch == <<"z", "z">>

gBlank == <<" ">>

gContracts == <<"c", "o", "n", "t", "r", "a", "c", "t", "s", "/">>

extSol == <<".", "s", "o", "l">>

extRs == <<".", "r", "s">>

extCairo == <<".", "c", "a", "i", "r", "o">>

NoBases == <<>>

\* `import "ref";`
ImportDq(ref) == [k |-> "import", form |-> "dq", ref |-> ref, bases |-> NoBases]

\* `import 'ref';`
ImportSq(ref) == [k |-> "import", form |-> "sq", ref |-> ref, bases |-> NoBases]

\* `import {X} from "ref";`
ImportNamed(ref) == [k |-> "import", form |-> "named_dq", ref |-> ref, bases |-> NoBases]

\* `import * as X from "ref";`
ImportAlias(ref) == [k |-> "import", form |-> "alias_dq", ref |-> ref, bases |-> NoBases]

\* `contract Name is Base1, Base2 {`
ContractIs(bases) == [k |-> "is", form |-> "", ref |-> <<>>, bases |-> bases]

\* `use path;`
UseDecl(path) == [k |-> "use", form |-> "", ref |-> path, bases |-> NoBases]

\* `mod name;`
ModDecl(name) == [k |-> "mod", form |-> "", ref |-> name, bases |-> NoBases]

File(path, text) == [path |-> InWs(path), readable |-> TRUE, text |-> text]

\* a file that lies outside the workspace directory
Outside(path, text) == [path |-> path, readable |-> TRUE, text |-> text]

\* a file whose open() or read() raises
Unreadable(path, text) == [File(path, text) EXCEPT !.readable = FALSE]

\* length of the synthetic cyclic import chain
ChainLen == 13

Digits == <<"0", "1", "2", "3", "4", "5", "6", "7", "8", "9">>

\* c00.sol, c01.sol, ...
ChainName(i) == <<"c", Digits[(i \div 10) + 1], Digits[(i % 10) + 1]>> \o extSol

\* file i of the chain imports file i+1, the last one imports the first
ChainFiles ==
    [i \in 1..ChainLen |->
        File(ChainName(i - 1), <<ImportDq(<<".", "/">> \o ChainName(i % ChainLen))>>)]

GlobFiles ==
    << File(pSrcA, << ImportDq(rUpTestsUnitFoo), ImportNamed(rTestsFoo),
                      ImportAlias(rMocksMock), ImportSq(rContractsMocksMock) >>),
       File(pTestsUnitFoo, <<>>),
       File(pTestsFoo, <<>>),
       File(pMocksMock, <<>>),
       File(pContractsMocksMock, <<>>) >>

DiamondFiles ==
    << File(pA, << ContractIs(<<nB, nC>>), ImportDq(rDotB), ImportNamed(rDotC) >>),
       File(pB, << ImportDq(rDotD) >>),
       File(pC, << ImportSq(rDotD) >>),
       File(pD, << ImportDq(rDotA), ImportDq(rE) >>),
       File(pLibE, <<>>) >>

RustFiles ==
    << File(pMainSol, << ImportDq(rSrcARs) >>),
       File(pRsA, << ModDecl(nb) >>),
       File(pRsB, << ModDecl(nc) >>),
       File(pRsC, <<>>),
       File(pCargo, <<>>) >>

\* Vault inherits from a contract with a sibling file and from one without
\* any file; it imports a file that cannot be read, a file that does not
\* exist and a file with an upper-case suffix
VaultFiles ==
    << File(pVault, << ContractIs(<<nOwnable, nPausable>>), ImportDq(rDotBroken),
                       ImportDq(rDotMissing), ImportDq(rDotLibUpper) >>),
       File(pOwnable, <<>>),
       Unreadable(pBroken, << ImportDq(rDotSecret) >>),
       File(pSecret, <<>>),
       File(pLibUpper, <<>>) >>

\* a package below the workspace root: a file of its src directory names a
\* module of the package by its path from the package root, a file two
\* directories below the package root names it by two parent steps
CrateFiles ==
    << File(pPkgCargo, <<>>),
       File(pPkgMain, << UseDecl(mCrateUtilsHelpers) >>),
       File(pPkgHelpers, <<>>),
       File(pPkgUtilsMod, <<>>),
       File(pPkgInner, << UseDecl(mSuperSuperUtilsHelpers) >>) >>

\* Token inherits from Mid and from Base, Mid inherits from Base; beside
\* Base.sol lies the lower-ranked candidate IBase.sol
TokenFiles ==
    << File(pToken, << ContractIs(<<nMid, nBase>>) >>),
       File(pMid, << ContractIs(<<nBase>>) >>),
       File(pBase, <<>>),
       File(pIBase, <<>>) >>

\* files of the same name at several of the places the path resolver looks
\* at: Lib.sol at the workspace root and beside the referencing file Ref.sol,
\* Util.sol under src and Util beside Ref.sol, Up.sol in the parent directory
\* and in the local interfaces directory, Only.sol at the workspace root and
\* under contracts but not beside Ref.sol
ResolverFiles ==
    << File(pRootLib, <<>>),
       File(pHereLib, <<>>),
       File(pRef, <<>>),
       File(pSrcUtil, <<>>),
       File(pHereUtil, <<>>),
       File(pUp, <<>>),
       File(pHereInterfacesUp, <<>>),
       File(pRootOnly, <<>>),
       File(pContractsOnly, <<>>) >>

\* a file of the workspace and a file outside the workspace directory
OutsideFiles ==
    << File(pIn, <<>>),
       Outside(pOut, <<>>) >>

Workspaces ==
    <<GlobFiles, DiamondFiles, RustFiles, ChainFiles, VaultFiles, CrateFiles, TokenFiles,
      ResolverFiles, OutsideFiles>>

\* the files of workspace w, as indices into its table
FileIds(w) == 1..Len(w)

PathOf(w, f) == w[f].path

NoFile == 0

\* Path(path).exists() and Path(path).is_file(): the file with this path, or NoFile
FileAt(w, path) ==
    LET Named(files) == IF files = {} THEN NoFile ELSE CHOOSE f \in files : TRUE
    IN  Named({f \in FileIds(w) : PathOf(w, f) = path})

(***************************************************************************)
(* File classifier                                                         *)
(***************************************************************************)

sTmp == <<"t", "m", "p">>

sTemp == <<"T", "e", "m", "p">>

sVar == <<"v", "a", "r">>

sSrc == <<"s", "r", "c">>

sContracts == <<"c", "o", "n", "t", "r", "a", "c", "t", "s">>

sInterfaces == <<"i", "n", "t", "e", "r", "f", "a", "c", "e", "s">>

sLib == <<"l", "i", "b">>

sLibraries == <<"l", "i", "b", "r", "a", "r", "i", "e", "s">>

sDotDot == <<".", ".">>

sCrate == <<"c", "r", "a", "t", "e">>

sSuper == <<"s", "u", "p", "e", "r">>

sSelf == <<"s", "e", "l", "f">>

sColons == <<":", ":">>

sCargoToml == <<"C", "a", "r", "g", "o", ".", "t", "o", "m", "l">>

sModRs == <<"m", "o", "d", ".", "r", "s">>

sLibRs == <<"l", "i", "b", ".", "r", "s">>

sStorageSol == <<"S", "t", "o", "r", "a", "g", "e", ".", "s", "o", "l">>

sLogicSol == <<"L", "o", "g", "i", "c", ".", "s", "o", "l">>

Min(S) == CHOOSE x \in S : \A y \in S : x <= y

\* the workspace-relative form of a path (first part of _should_include_file)
RelPath(path) ==
    LET FromCommon(file_path_norm, file_parts, common) ==
            IF common # {}
            THEN Join(SubSeq(file_parts, Min(common) + 1, Len(file_parts)), Slash)
            ELSE file_path_norm
        ByParts(file_path_norm, ws_parts, file_parts) ==
            FromCommon(file_path_norm, file_parts,
                       {i \in 1..Len(ws_parts) :
                            /\ i <= Len(file_parts)
                            /\ ws_parts[i] = file_parts[i]
                            /\ ws_parts[i] \in {sTmp, sTemp, sVar}})
        Relative(workspace_path, file_path_norm) ==
            IF StartsWith(file_path_norm, workspace_path)
            THEN LStrip(Drop(file_path_norm, Len(workspace_path)), "/")
            ELSE ByParts(file_path_norm, Split(workspace_path, "/"),
                         Split(file_path_norm, "/"))
    IN  Relative(normalize_path(WorkspaceDir), normalize_path(path))

\* some pattern of the compiled list is found in the relative path
AnySearch(patterns, rel) == \E j \in 1..Len(patterns) : Search(patterns[j], rel)

ExtensionRejects_Never(extensions, path) == FALSE

\* the extension check: a configured extension list that the path matches none of
ExtensionRejects(extensions, path) ==
    /\ extensions # <<>>
    /\ ~ \E j \in 1..Len(extensions) :
             EndsWith(Lower(normalize_path(path)), Lower(extensions[j]))

PrimaryMode_Never(flag) == FALSE

PrimaryMode_Always(flag) == TRUE

\* the branch on `hasattr(self, '_is_checking_primary') and self._is_checking_primary`
PrimaryMode(flag) == flag = "True"

\* as should_include_file, the include patterns consulted before the excludes
should_include_file_IncludeFirst(extensions, include_patterns, exclude_patterns, flag, path) ==
    LET Decide(rel_path, primary) ==
            IF ExtensionRejects(extensions, path) THEN FALSE
            ELSE IF primary /\ AnySearch(include_patterns, rel_path) THEN TRUE
            ELSE IF AnySearch(exclude_patterns, rel_path) THEN FALSE
            ELSE ~ primary \/ include_patterns = <<>>
    IN  Decide(RelPath(path), PrimaryMode(flag))

\* FileAnalyzer._should_include_file on an analyzer with these fields
should_include_file(extensions, include_patterns, exclude_patterns, flag, path) ==
    LET Decide(rel_path) ==
            IF ExtensionRejects(extensions, path) THEN FALSE
            ELSE IF AnySearch(exclude_patterns, rel_path) THEN FALSE
            ELSE IF PrimaryMode(flag)
                 THEN (IF include_patterns = <<>> THEN TRUE
                       ELSE AnySearch(include_patterns, rel_path))
                 ELSE TRUE
    IN  Decide(RelPath(path))

(***************************************************************************)
(* Path resolver, contract-style format                                    *)
(***************************************************************************)

TryCandidate_NoRetry(w, path) == FileAt(w, normalize_path(path))

\* the existence test of one candidate, with the `.sol` retry
TryCandidate(w, path) ==
    LET Retry(normalized_path) ==
            IF ~ EndsWith(normalized_path, extSol)
            THEN FileAt(w, normalized_path \o extSol)
            ELSE NoFile
        Try(normalized_path, found) ==
            IF found # NoFile THEN found ELSE Retry(normalized_path)
        Probe(normalized_path) == Try(normalized_path, FileAt(w, normalized_path))
    IN  Probe(normalize_path(path))

IsRelative_Never(import_path) == FALSE

\* import_path.startswith('./') or import_path.startswith('../')
IsRelative(import_path) ==
    StartsWith(import_path, <<".", "/">>) \/ StartsWith(import_path, <<".", ".", "/">>)

RECURSIVE FirstCandidate(_, _)
FirstCandidate(w, paths) ==
    LET Pick(found) == IF found # NoFile THEN found ELSE FirstCandidate(w, Tail(paths))
    IN  IF paths = <<>> THEN NoFile ELSE Pick(TryCandidate(w, paths[1]))

\* FileAnalyzer._resolve_import_path: the file an import string names, or NoFile
resolve_import_path(w, import_path0, current_file) ==
    LET Last(parts) == parts[Len(parts)]
        Resolve(workspace_dir_norm, here, import_path) ==
            IF IsRelative(import_path)
            THEN TryCandidate(w, PathJoin(here, import_path))
            ELSE FirstCandidate(w,
                   << PathJoin(workspace_dir_norm, import_path),
                      PathJoin(PathJoin(workspace_dir_norm, sSrc), import_path),
                      PathJoin(PathJoin(workspace_dir_norm, sContracts), import_path),
                      PathJoin(PathJoin(workspace_dir_norm, sInterfaces), import_path),
                      PathJoin(PathJoin(workspace_dir_norm, sLib), import_path),
                      PathJoin(here, import_path),
                      PathJoin(PathJoin(here, sDotDot), import_path),
                      PathJoin(PathJoin(here, sInterfaces), import_path),
                      PathJoin(PathJoin(here, sLibraries), import_path),
                      PathJoin(PathJoin(workspace_dir_norm, Replace(import_path, extSol, <<>>)),
                               Last(Split(import_path, "/"))) >>)
    IN  Resolve(normalize_path(WorkspaceDir), Parent(normalize_path(current_file)),
                Replace(import_path0, <<"\\">>, Slash))

InheritanceCandidates_InterfaceOnly(contract) == << <<"I">> \o contract \o extSol >>

\* the ranked candidate file names for one inherited contract name
InheritanceCandidates(contract) ==
    << contract \o extSol,
       <<"I">> \o contract \o extSol,
       contract \o sStorageSol,
       contract \o sLogicSol,
       sContracts \o Slash \o contract \o extSol,
       sSrc \o Slash \o contract \o extSol,
       sInterfaces \o Slash \o <<"I">> \o contract \o extSol >>

(***************************************************************************)
(* Path resolver, module-system format                                     *)
(***************************************************************************)

\* Path(path).exists()
Exists(w, path) == FileAt(w, path) # NoFile

RECURSIVE find_cargo_root_from(_, _)
find_cargo_root_from(w, current_dir) ==
    IF current_dir = Parent(current_dir) THEN WorkspaceDir
    ELSE IF Exists(w, PathJoin(current_dir, sCargoToml)) THEN current_dir
    ELSE find_cargo_root_from(w, Parent(current_dir))

\* FileAnalyzer._find_cargo_root
find_cargo_root(w, current_file) == find_cargo_root_from(w, Parent(current_file))

RECURSIVE Ascend(_, _)
Ascend(dir, n) == IF n = 0 THEN dir ELSE Ascend(Parent(dir), n - 1)

\* only the file of the latest segment is kept
resolved_paths_add_Latest(resolved_paths, found) ==
    IF found = {} THEN resolved_paths ELSE found

\* resolved_paths.add(location)
resolved_paths_add(resolved_paths, found) == resolved_paths \cup found

RECURSIVE RustWalk(_, _, _, _)
\* the progressive walk over the path parts: the files found along it
RustWalk(w, path_parts, current_dir, resolved_paths) ==
    IF path_parts = <<>> THEN resolved_paths
    ELSE LET Continue(dir, found) ==
                 RustWalk(w, Tail(path_parts), dir, resolved_paths_add(resolved_paths, found))
             Found(location) == Continue(Parent(location), {FileAt(w, location)})
             Break(part, hits) ==
                 IF hits # <<>> THEN Found(hits[1])
                 ELSE Continue(PathJoin(current_dir, part), {})
             Try(part, possible_locations) ==
                 Break(part, SelectSeq(possible_locations, LAMBDA l : Exists(w, l)))
             Visit(part) ==
                 IF part = <<>> \/ part \in {sSelf, sCrate, sSuper}
                 THEN Continue(current_dir, {})
                 ELSE Try(part, << PathJoin(current_dir, part \o extRs),
                                   PathJoin(PathJoin(current_dir, part), sModRs),
                                   PathJoin(PathJoin(current_dir, part), sLibRs) >>)
         IN  Visit(path_parts[1])

RECURSIVE SplitColons(_)
\* import_path.split('::')
SplitColons(s) ==
    IF ~ Contains(s, sColons) THEN <<s>>
    ELSE LET k == Min({i \in 1..(Len(s) - 1) : s[i] = ":" /\ s[i + 1] = ":"})
         IN  <<SubSeq(s, 1, k - 1)>> \o SplitColons(Drop(s, k + 1))

\* FileAnalyzer._resolve_rust_import_path
resolve_rust_import_path(w, import_path, current_file) ==
    LET Supers(path_parts, super_count) ==
            [parts |-> Drop(path_parts, super_count),
             dir |-> Ascend(Parent(current_file), super_count)]
        Start(path_parts) ==
            IF StartsWith(import_path, sCrate)
            THEN [parts |-> Tail(path_parts), dir |-> find_cargo_root(w, current_file)]
            ELSE IF StartsWith(import_path, sSuper)
                 THEN Supers(path_parts,
                             Cardinality({j \in 1..Len(path_parts) : path_parts[j] = sSuper}))
                 ELSE [parts |-> path_parts, dir |-> Parent(current_file)]
        Walk(start) == RustWalk(w, start.parts, start.dir, {})
    IN  Walk(Start(SplitColons(import_path)))

(***************************************************************************)
(* Import extractor                                                        *)
(***************************************************************************)

\* `use path::{first, ...};` (first: the text from the brace to the first blank)
UseBraces(path, first) == [k |-> "use", form |-> "brace", ref |-> path, bases |-> <<first>>]

\* `extern crate name;`
ExternCrate(name) == [k |-> "extern", form |-> "", ref |-> name, bases |-> NoBases]

\* a character of the class [^:;\s]
SegChar(c) == c \notin ({":", ";"} \cup WhiteSpace)

RECURSIVE SegRun(_)
\* length of the longest prefix matching [^:;\s]+(?:::[^:;\s]+)*
SegRun(s) ==
    IF s = <<>> \/ ~ SegChar(s[1]) THEN 0
    ELSE LET run == IF \E i \in 1..Len(s) : ~ SegChar(s[i])
                    THEN Min({i \in 1..Len(s) : ~ SegChar(s[i])}) - 1
                    ELSE Len(s)
             more == IF /\ Len(s) >= run + 3
                        /\ s[run + 1] = ":" /\ s[run + 2] = ":"
                     THEN SegRun(Drop(s, run + 2)) ELSE 0
         IN  IF more > 0 THEN run + 2 + more ELSE run

\* the text after `use ` once (?:crate|super|self)?::? has matched, or <<>> when
\* the pattern does not match at all
AfterUsePrefix(text) ==
    LET pre == {q \in {sCrate, sSuper, sSelf} :
                    StartsWith(text, q) /\ Len(text) > Len(q) /\ text[Len(q) + 1] = ":"}
        t1 == IF pre # {} THEN Drop(text, Len(CHOOSE q \in pre : TRUE)) ELSE text
        t2 == IF t1 # <<>> /\ t1[1] = ":" THEN Drop(t1, 1) ELSE <<>>
    IN  IF t2 # <<>> /\ t2[1] = ":" THEN Drop(t2, 1) ELSE t2

\* group 1 of the first `use` pattern on the statement text, <<>> when no match
UseCapture(text) ==
    LET Group(rest) == SubSeq(rest, 1, SegRun(rest)) IN Group(AfterUsePrefix(text))

\* the text that follows `use ` in the statement
UseText(st) == IF st.form = "brace" THEN st.ref \o sColons \o st.bases[1] ELSE st.ref

\* the import paths the four patterns of _find_rust_imports extract from a file,
\* pattern by pattern, each in text order
RustImportPaths(text) ==
    LET Kept(captures) == SelectSeq(captures, LAMBDA c : c # <<>>)
        Refs(sts) == [j \in 1..Len(sts) |-> sts[j].ref]
        \* group 1 of the brace pattern: the whole path before `::{`
        BraceCapture(rest) == IF SegRun(rest) = Len(rest) THEN rest ELSE <<>>
        P1 == SelectSeq(text, LAMBDA st : st.k = "use")
        P4 == SelectSeq(text, LAMBDA st : st.k = "use" /\ st.form = "brace")
    IN  Kept([j \in 1..Len(P1) |-> UseCapture(UseText(P1[j]))])
        \o Refs(SelectSeq(text, LAMBDA st : st.k = "mod"))
        \o Refs(SelectSeq(text, LAMBDA st : st.k = "extern"))
        \o Kept([j \in 1..Len(P4) |-> BraceCapture(AfterUsePrefix(P4[j].ref))])

\* FileAnalyzer._find_rust_imports: the files the statements of a .rs file resolve to
find_rust_imports(w, f) ==
    LET Resolved(paths) ==
            UNION {resolve_rust_import_path(w, paths[j], PathOf(w, f)) : j \in 1..Len(paths)}
    IN  Resolved(RustImportPaths(w[f].text))

\* FileAnalyzer._find_cairo_imports
find_cairo_imports(w, f) == {}

\* the statement forms each of the five import patterns of
\* _find_solidity_imports matches
ImportPatternForms ==
    << {"dq"}, {"named_dq"}, {"alias_dq"}, {"named_dq", "named_sq"}, {"dq", "sq"} >>

RECURSIVE FlattenBases(_)
FlattenBases(decls) ==
    IF decls = <<>> THEN <<>>
    ELSE [j \in 1..Len(decls[1].bases) |-> [k |-> "base", ref |-> decls[1].bases[j]]]
         \o FlattenBases(Tail(decls))

RECURSIVE ImportItems(_, _)
ImportItems(text, pattern) ==
    IF pattern > Len(ImportPatternForms) THEN <<>>
    ELSE LET hits == SelectSeq(text, LAMBDA st :
                         st.k = "import" /\ st.form \in ImportPatternForms[pattern])
         IN  [j \in 1..Len(hits) |-> [k |-> "import", ref |-> hits[j].ref]]
             \o ImportItems(text, pattern + 1)

\* the references _find_solidity_imports works through, in the order of its
\* loops: the bases of every inheritance declaration, then the matches of
\* each import pattern in turn
SolidityItems(text) ==
    FlattenBases(SelectSeq(text, LAMBDA st : st.k = "is")) \o ImportItems(text, 1)

(***************************************************************************)
(* Dependency graph builder.  The state of one find_dependencies           *)
(* invocation is a record t:                                               *)
(*   i             position of the loop over primary_files                 *)
(*   stack         the active _find_solidity_imports calls, innermost last;*)
(*                 each frame has the file, the depth argument, the        *)
(*                 position k in its references and its local set deps     *)
(*   visited       the visited set shared by the whole invocation          *)
(*   dependencies  the accumulator of find_dependencies                    *)
(*   reads         how often each file has been opened                     *)
(***************************************************************************)

MAX_DEPTH == 10

NewTraversal(w) ==
    [i |-> 1, stack |-> <<>>, visited |-> {}, dependencies |-> {},
     reads |-> [f \in FileIds(w) |-> 0]]

StartTraversal_KeepVisited(w, t) == [NewTraversal(w) EXCEPT !.visited = t.visited]

\* the head of find_dependencies: the accumulator and the visited set are
\* new, empty sets on every call, whatever the last call (state t) left
StartTraversal(w, t) == NewTraversal(w)

SkipExpansion_NoDepth(t, file, depth) == file \in t.visited

\* the guard at the top of _find_file_dependencies
SkipExpansion(t, file, depth) == depth > MAX_DEPTH \/ file \in t.visited

MarkVisited_Forget(t, file) == t

\* the effect of marking a file visited
MarkVisited(t, file) == [t EXCEPT !.visited = @ \cup {file}]

ReadFails_Never(w, file) == FALSE

\* open() or read() of the file raises; the except clause of
\* _find_file_dependencies prints the error and the empty set is returned
ReadFails(w, file) == ~ w[file].readable

NestedDepth_Same(depth) == depth

\* the depth _find_file_dependencies hands to _find_solidity_imports, which
\* hands it on unchanged to the _find_file_dependencies calls it makes
NestedDepth(depth) == depth + 1

\* FileAnalyzer._find_file_dependencies up to the point where it either
\* returns (ret: the returned set) or enters _find_solidity_imports (push:
\* the new frame)
find_file_dependencies(w, t, file, depth) ==
    IF SkipExpansion(t, file, depth)
    THEN [t |-> t, ret |-> {}, push |-> <<>>]
    ELSE LET Returns(ret, push) ==
                 [t |-> [MarkVisited(t, file) EXCEPT !.reads[file] = @ + 1],
                  ret |-> ret, push |-> push]
             Dispatch(suffix) ==
                 IF ReadFails(w, file) THEN Returns({}, <<>>)
                 ELSE IF suffix = extSol
                 THEN Returns({}, <<[file |-> file, depth |-> NestedDepth(depth),
                                     k |-> 1, deps |-> {}]>>)
                 ELSE IF suffix = extRs THEN Returns(find_rust_imports(w, file), <<>>)
                 ELSE IF suffix = extCairo THEN Returns(find_cairo_imports(w, file), <<>>)
                 ELSE Returns({}, <<>>)
         IN  Dispatch(Suffix(PathOf(w, file)))

FrameItems(w, frame) == SolidityItems(w[frame.file].text)

Top(t) == t.stack[Len(t.stack)]

\* the `resolved_path and resolved_path not in visited` test
Fresh(t, resolved) == resolved # NoFile /\ resolved \notin t.visited

RECURSIVE FirstFresh(_, _, _, _)
\* the loop over possible_paths: the first candidate that resolves to a file
\* not yet visited
FirstFresh(w, t, candidates, current_file) ==
    IF candidates = <<>> THEN NoFile
    ELSE LET Pick(r) == IF Fresh(t, r) THEN r
                         ELSE FirstFresh(w, t, Tail(candidates), current_file)
         IN  Pick(resolve_import_path(w, candidates[1], current_file))

\* the file one reference of the top frame leads to, NoFile when it is skipped
ItemTarget(w, t) ==
    LET Target(item, current_file) ==
            FirstFresh(w, t,
                       IF item.k = "base" THEN InheritanceCandidates(item.ref)
                       ELSE <<item.ref>>,
                       current_file)
        Of(top) == Target(FrameItems(w, top)[top.k], PathOf(w, top.file))
    IN  Of(Top(t))

\* one iteration of the loop of find_dependencies over primary_files, up to
\* the return of _find_file_dependencies or its entry into a .sol file
expand_primary(w, primary, t) ==
    LET After(c) == IF c.push # <<>>
                    THEN [c.t EXCEPT !.stack = c.push]
                    ELSE [c.t EXCEPT !.dependencies = @ \cup c.ret, !.i = @ + 1]
    IN  After(find_file_dependencies(w, t, primary[t.i], 0))

\* one iteration of a loop of _find_solidity_imports in the innermost call
process_item(w, t) ==
    LET n == Len(t.stack)
        After(target, c) ==
            [c.t EXCEPT !.stack =
                SubSeq(t.stack, 1, n - 1)
                \o <<[Top(t) EXCEPT !.deps = @ \cup {target} \cup c.ret, !.k = @ + 1]>>
                \o c.push]
        Follow(target) ==
            IF target = NoFile
            THEN [t EXCEPT !.stack[n].k = @ + 1]
            ELSE After(target, find_file_dependencies(w, t, target, Top(t).depth))
    IN  Follow(ItemTarget(w, t))

\* the innermost _find_solidity_imports call returns its set to its caller
return_frame(t) ==
    LET n == Len(t.stack)
        top == Top(t)
    IN  IF n = 1
        THEN [t EXCEPT !.stack = <<>>, !.dependencies = @ \cup top.deps, !.i = @ + 1]
        ELSE [t EXCEPT !.stack = [SubSeq(t.stack, 1, n - 1)
                                    EXCEPT ![n - 1].deps = @ \cup top.deps]]

RECURSIVE SortPaths(_, _)
\* sorted(paths)
SortPaths(w, S) ==
    IF S = {} THEN <<>>
    ELSE LET m == CHOOSE f \in S : \A g \in S \ {f} : PathLess(PathOf(w, f), PathOf(w, g))
         IN  <<m>> \o SortPaths(w, S \ {m})

Range(seq) == {seq[j] : j \in 1..Len(seq)}

RemovePrimary_Kept(dependencies, primary) == dependencies

\* `dependencies - set(primary_files)`
RemovePrimary(dependencies, primary) == dependencies \ Range(primary)

\* the end of find_dependencies: drop the primary files, classify, sort
finish_dependencies(w, extensions, include_patterns, exclude_patterns, flag, primary, t) ==
    SortPaths(w, {d \in RemovePrimary(t.dependencies, primary) :
                     should_include_file(extensions, include_patterns, exclude_patterns,
                                         flag, PathOf(w, d))})

(***************************************************************************)
(* The state machine.  Two analyzers are built on the same workspace with  *)
(* the same extensions and exclude patterns and with include patterns of   *)
(* their own; the caller makes the same calls on both.                     *)
(***************************************************************************)

VARIABLES
    ws,                   \* the workspace: the files on disk
    extensions,           \* self.extensions
    exclude,              \* the exclude globs given to the constructor
    include,              \* the include globs given to the constructor, per analyzer
    debug,                \* self.debug, per analyzer
    include_patterns,     \* self.include_patterns, per analyzer
    exclude_patterns,     \* self.exclude_patterns, per analyzer
    is_checking_primary,  \* self._is_checking_primary, per analyzer ("unset": no attribute)
    pc,                   \* the call in progress, per analyzer
    changed_files,        \* argument of the find_primary_files call
    scan,                 \* loop state of find_primary_files, per analyzer
    primary_files,        \* argument of the find_dependencies call
    trav,                 \* state of the find_dependencies invocation, per analyzer
    out,                  \* the value last returned to the caller, per analyzer
    prev,                 \* the list the preceding find_dependencies call on the
                          \* same primary files returned to the caller, per analyzer
    resolved,             \* the last _resolve_rust_import_path call made on its own:
                          \* its arguments and the set it returned
    located,              \* the last _resolve_import_path call made on its own:
                          \* its arguments and the file it returned
    scanner               \* remove_inline_tests: the lines read, the loop position,
                          \* in_test_block, brace_depth, result_lines and the
                          \* lines written back

vars == <<ws, debug, extensions, exclude, include, include_patterns, exclude_patterns,
          is_checking_primary, pc, changed_files, scan, primary_files, trav, out,
          prev, resolved, located, scanner>>

\* the variables of the file analyzer
analyzer_vars ==
    <<ws, debug, extensions, exclude, include, include_patterns, exclude_patterns,
      is_checking_primary, pc, changed_files, scan, primary_files, trav, out,
      prev, resolved, located>>

Analyzers == {1, 2}

\* longest primary_files list handed to find_dependencies
MaxPrimary == 2

\* longest changed_files list handed to find_primary_files
MaxChanged == 2

\* per workspace, the files the caller names in its lists
Seeds == << {1, 5}, {1, 4}, {1, 2}, {1, 7}, {1, 3}, {2, 3, 5}, {1, 3}, {3, 6}, {1, 2} >>

WsIndex(files) == CHOOSE w \in 1..Len(Workspaces) : Workspaces[w] = files

ExtensionChoices == { <<extSol>>, <<extSol, extRs>> }

ExcludeChoices == { <<>>, <<gAnyMocksAny>>, <<gNoMatch>> }

\* the include globs of analyzer 1 and of analyzer 2
IncludeChoices ==
    { << <<>>, <<gTestsAnySol>> >>,
      << <<gAnyMocksAny>>, <<gSrcAny, gContracts>> >>,
      << <<gContracts>>, <<gAnyMocksAny>> >>,
      << <<>>, <<>> >> }

\* exclude lists with whitespace-only entries
BlankExcludeChoices == { <<gBlank>>, <<gBlank, gNoMatch>>, <<gNoMatch>> }

\* include lists with whitespace-only entries, of analyzer 1 and of analyzer 2
BlankIncludeChoices ==
    { << <<gBlank>>, <<gBlank, gContracts>> >>,
      << <<>>, <<gAnyMocksAny, gBlank>> >> }

\* the configurations a workspace is analysed under: the globs that name
\* directories of GlobFiles are varied on GlobFiles, the extension list on
\* the workspaces that hold .rs files, whitespace-only globs on TokenFiles;
\* on GlobFiles and OutsideFiles two analyzers are built that differ in the
\* debug flag
Configurations(w) ==
    [extensions : IF \E f \in FileIds(w) : Suffix(PathOf(w, f)) = extRs
                  THEN ExtensionChoices ELSE {<<extSol>>},
     exclude : IF w = GlobFiles THEN ExcludeChoices
               ELSE IF w = TokenFiles THEN BlankExcludeChoices
               ELSE {<<>>, <<gNoMatch>>},
     include : IF w = GlobFiles THEN IncludeChoices
               ELSE IF w = TokenFiles THEN BlankIncludeChoices
               ELSE {<< <<gContracts>>, <<gAnyMocksAny>> >>, << <<>>, <<>> >>},
     debug : IF w = OutsideFiles THEN {<<FALSE, TRUE>>} ELSE {<<FALSE, FALSE>>}]
    \cup
    [extensions : {<<extSol>>},
     exclude : IF w = GlobFiles THEN ExcludeChoices ELSE {},
     include : {<< <<>>, <<>> >>, << <<gContracts>>, <<gContracts>> >>},
     debug : {<<FALSE, TRUE>>}]

\* the lists without repetition over S of length at most n
ListsOver(S, n) ==
    UNION { {q \in [1..m -> S] : \A x, y \in 1..m : x # y => q[x] # q[y]} : m \in 0..n }

PrimaryInputs(w) == ListsOver(Seeds[WsIndex(w)], MaxPrimary)

\* changed_files=None
NoChange == [given |-> FALSE, files |-> <<>>]

ChangeInputs(w) ==
    {NoChange} \cup {[given |-> TRUE, files |-> q] : q \in ListsOver(Seeds[WsIndex(w)], MaxChanged)}

\* the files os.walk(self.workspace_dir) yields
WalkFiles(w) ==
    SelectSeq([f \in FileIds(w) |-> f],
              LAMBDA f : StartsWith(PathOf(w, f), WorkspaceDir \o Slash))

NoScan == [files |-> <<>>, k |-> 1, found |-> <<>>]

NoOut == [op |-> "none", value |-> <<>>]

\* the caller holds no earlier result
NoPrev == [called |-> FALSE, repeated |-> FALSE, primary |-> <<>>, value |-> <<>>]

\* no _resolve_rust_import_path call of its own has been made
NoResolved == [called |-> FALSE, import_path |-> <<>>, current_file |-> NoFile, value |-> {}]

\* the module paths handed to _resolve_rust_import_path
ModulePaths == {mCrateUtilsHelpers, mUtilsHelpers}

\* the arguments of a _resolve_rust_import_path call: a module path and one of
\* the .rs files the caller names
RustReferences(w) ==
    [import_path : ModulePaths,
     current_file : {f \in Seeds[WsIndex(w)] : Suffix(PathOf(w, f)) = extRs}]

\* no _resolve_import_path call of its own has been made
NoLocated == [called |-> FALSE, import_path |-> <<>>, current_file |-> NoFile, value |-> NoFile]

\* the import strings handed to _resolve_import_path: plain and relative
\* names of the files of ResolverFiles, and a name no file has
ImportStrings(w) ==
    IF w = ResolverFiles
    THEN {iLib, iUtil, iUp, iOnly, iMissing, iDotOnly, iDotOnlyBare, iDotLib, iDotDotUp}
    ELSE {}

\* the arguments of a _resolve_import_path call: an import string and one of
\* the .sol files the caller names
ImportReferences(w) ==
    [import_path : ImportStrings(w),
     current_file : {f \in Seeds[WsIndex(w)] : Suffix(PathOf(w, f)) = extSol}]

Traced_Inverted(flag, value) == IF flag THEN ~ value ELSE value

\* the `if self.debug:` blocks of _should_include_file: each prints and
\* falls through to the return statement that follows it
Traced(flag, value) == value

\* self._should_include_file(path) on analyzer a in its current state
ShouldInclude(a, f) ==
    Traced(debug[a],
           should_include_file(extensions, include_patterns[a], exclude_patterns[a],
                               is_checking_primary[a], PathOf(ws, f)))

(***************************************************************************)
(* remove_inline_tests (src/remove_rust_t.py)                              *)
(***************************************************************************)

lTest == <<"#", "[", "t", "e", "s", "t", "]">>

lCfgTest == <<" ", " ", "#", "[", "c", "f", "g", "(", "t", "e", "s", "t", ")", "]">>

lSig == <<"f", "n", " ", "t", "(", ")">>

lOpen == <<"m", "o", "d", " ", "m", " ", "{">>

lClose == <<"}">>

lBoth == <<"f", "n", " ", "k", "(", ")", " ", "{", "}">>

\* the lines a Rust file is made of
RustLines == {lTest, lCfgTest, lSig, lOpen, lClose, lBoth}

\* the longest file handed to remove_inline_tests, in lines
MaxLines == 4

\* the files handed to remove_inline_tests
RustSources == UNION {[1..n -> RustLines] : n \in 0..MaxLines}

\* line.count(c)
Count(line, c) == Cardinality({i \in 1..Len(line) : line[i] = c})

RECURSIVE LStripSpace(_)
\* the line without the whitespace \s* matches at its start
LStripSpace(line) ==
    IF line # <<>> /\ line[1] \in WhiteSpace THEN LStripSpace(Tail(line)) ELSE line

\* re.match(r'\s*#\[(cfg\(test\)|test)\]', line)
IsTestAttribute(line) ==
    \/ StartsWith(LStripSpace(line), <<"#", "[", "c", "f", "g", "(", "t", "e", "s", "t", ")", "]">>)
    \/ StartsWith(LStripSpace(line), <<"#", "[", "t", "e", "s", "t", "]">>)

\* no remove_inline_tests call has been made
NoScanner ==
    [lines |-> <<>>, pos |-> 1, in_test_block |-> FALSE, brace_depth |-> 0,
     result_lines |-> <<>>, written |-> FALSE, file |-> <<>>]

\* remove_inline_tests has read the lines of the file
NewScanner(lines) == [NoScanner EXCEPT !.lines = lines, !.file = lines]

\* `if brace_depth <= 0:` after the braces of the line have been counted
BlockEnds(sc, line, depth) == depth <= 0

\* one iteration of the loop of remove_inline_tests over the lines
scan_line(sc, line) ==
    LET Counted(depth) ==
            IF BlockEnds(sc, line, depth)
            THEN [sc EXCEPT !.in_test_block = FALSE, !.brace_depth = 0, !.pos = @ + 1]
            ELSE [sc EXCEPT !.brace_depth = depth, !.pos = @ + 1]
    IN  IF IsTestAttribute(line)
        THEN [sc EXCEPT !.in_test_block = TRUE, !.pos = @ + 1]
        ELSE IF sc.in_test_block
        THEN Counted(sc.brace_depth + Count(line, "{") - Count(line, "}"))
        ELSE [sc EXCEPT !.result_lines = Append(@, line), !.pos = @ + 1]

\* the analyzers after construction
AnalyzerInit ==
    /\ ws \in {Workspaces[j] : j \in 1..Len(Workspaces)}
    /\ \E c \in Configurations(ws) :
           /\ extensions = c.extensions
           /\ exclude = c.exclude
           /\ include = c.include
           /\ debug = c.debug
    /\ include_patterns = [a \in Analyzers |-> compile_patterns(include[a])]
    /\ exclude_patterns = [a \in Analyzers |-> compile_patterns(exclude)]
    /\ is_checking_primary = [a \in Analyzers |-> "unset"]
    /\ pc = [a \in Analyzers |-> "idle"]
    /\ changed_files = NoChange
    /\ scan = [a \in Analyzers |-> NoScan]
    /\ primary_files = <<>>
    /\ trav = [a \in Analyzers |-> NewTraversal(ws)]
    /\ out = [a \in Analyzers |-> NoOut]
    /\ prev = [a \in Analyzers |-> NoPrev]
    /\ resolved = NoResolved
    /\ located = NoLocated

Init == AnalyzerInit /\ scanner = NoScanner

Idle == \A a \in Analyzers : pc[a] = "idle"

\* find_primary_files is entered: the flag is set and the list to scan chosen
FindPrimaryFilesCall(changed) ==
    /\ Idle
    /\ changed_files' = changed
    /\ is_checking_primary' = [a \in Analyzers |-> "True"]
    /\ scan' = [a \in Analyzers |->
                  [files |-> IF changed.given /\ changed.files # <<>>
                             THEN changed.files ELSE WalkFiles(ws),
                   k |-> 1, found |-> <<>>]]
    /\ pc' = [a \in Analyzers |-> "find_primary_files"]
    /\ primary_files' = <<>>
    /\ trav' = [a \in Analyzers |-> NewTraversal(ws)]
    /\ out' = [a \in Analyzers |-> NoOut]
    /\ resolved' = NoResolved
    /\ located' = NoLocated
    /\ UNCHANGED <<scanner, ws, debug, extensions, exclude, include, include_patterns,
                   exclude_patterns,
                   prev>>

CanCheck(a) == pc[a] = "find_primary_files" /\ scan[a].k <= Len(scan[a].files)

\* one file of the scanned list is classified
PrimaryCheck ==
    /\ \E a \in Analyzers : CanCheck(a)
    /\ scan' = [a \in Analyzers |->
                  IF CanCheck(a)
                  THEN LET f == scan[a].files[scan[a].k]
                       IN  [scan[a] EXCEPT !.k = @ + 1,
                                           !.found = IF ShouldInclude(a, f)
                                                     THEN Append(@, f) ELSE @]
                  ELSE scan[a]]
    /\ UNCHANGED <<scanner, ws, debug, extensions, exclude, include, include_patterns,
                   exclude_patterns,
                   is_checking_primary, pc, changed_files, primary_files, trav, out,
                   prev, resolved, located>>

CanReturnPrimary(a) == pc[a] = "find_primary_files" /\ scan[a].k > Len(scan[a].files)

\* file.relative_to(self.workspace_dir) raises ValueError
NotRelativeTo(w, f) == ~ StartsWith(PathOf(w, f), WorkspaceDir \o Slash)

\* the debug listing of the files kept from a change list raises
ListingRaises(a) ==
    /\ debug[a] /\ changed_files.given /\ changed_files.files # <<>>
    /\ \E j \in 1..Len(scan[a].found) : NotRelativeTo(ws, scan[a].found[j])

FlagAfter_KeptOnRaise(raised) == IF raised THEN "True" ELSE "False"

\* the finally clause of find_primary_files
FlagAfter(raised) == "False"

\* find_primary_files returns its list or leaves by the exception of the
\* debug listing; the finally clause clears the flag
FindPrimaryFilesReturn ==
    /\ \E a \in Analyzers : CanReturnPrimary(a)
    /\ out' = [a \in Analyzers |->
                 IF CanReturnPrimary(a)
                 THEN IF ListingRaises(a)
                      THEN [op |-> "ValueError", value |-> <<>>]
                      ELSE [op |-> "find_primary_files", value |-> scan[a].found]
                 ELSE out[a]]
    /\ is_checking_primary' = [a \in Analyzers |->
                 IF CanReturnPrimary(a) THEN FlagAfter(ListingRaises(a))
                 ELSE is_checking_primary[a]]
    /\ pc' = [a \in Analyzers |-> IF CanReturnPrimary(a) THEN "idle" ELSE pc[a]]
    /\ UNCHANGED <<scanner, ws, debug, extensions, exclude, include, include_patterns,
                   exclude_patterns,
                   changed_files, scan, primary_files, trav, prev, resolved, located>>

\* find_dependencies is entered with a list of primary files
FindDependenciesCall(primary) ==
    /\ Idle
    /\ primary_files' = primary
    /\ trav' = [a \in Analyzers |-> StartTraversal(ws, trav[a])]
    /\ pc' = [a \in Analyzers |-> "find_dependencies"]
    /\ changed_files' = NoChange
    /\ scan' = [a \in Analyzers |-> NoScan]
    /\ out' = [a \in Analyzers |-> NoOut]
    /\ prev' = [a \in Analyzers |->
                  IF prev[a].primary = primary THEN prev[a] ELSE NoPrev]
    /\ resolved' = NoResolved
    /\ located' = NoLocated
    /\ UNCHANGED <<scanner, ws, debug, extensions, exclude, include, include_patterns,
                   exclude_patterns,
                   is_checking_primary>>

Running(a) == pc[a] = "find_dependencies"

CanExpand(a) ==
    Running(a) /\ trav[a].stack = <<>> /\ trav[a].i <= Len(primary_files)

\* the loop of find_dependencies calls _find_file_dependencies on a primary file
ExpandPrimary ==
    /\ \E a \in Analyzers : CanExpand(a)
    /\ trav' = [a \in Analyzers |->
                  IF CanExpand(a) THEN expand_primary(ws, primary_files, trav[a])
                  ELSE trav[a]]
    /\ UNCHANGED <<scanner, ws, debug, extensions, exclude, include, include_patterns,
                   exclude_patterns,
                   is_checking_primary, pc, changed_files, scan, primary_files, out,
                   prev, resolved, located>>

CanProcess(a) ==
    /\ Running(a) /\ trav[a].stack # <<>>
    /\ Top(trav[a]).k <= Len(FrameItems(ws, Top(trav[a])))

\* the innermost _find_solidity_imports call handles its next reference
ProcessItem ==
    /\ \E a \in Analyzers : CanProcess(a)
    /\ trav' = [a \in Analyzers |->
                  IF CanProcess(a) THEN process_item(ws, trav[a]) ELSE trav[a]]
    /\ UNCHANGED <<scanner, ws, debug, extensions, exclude, include, include_patterns,
                   exclude_patterns,
                   is_checking_primary, pc, changed_files, scan, primary_files, out,
                   prev, resolved, located>>

CanReturnFrame(a) ==
    /\ Running(a) /\ trav[a].stack # <<>>
    /\ Top(trav[a]).k > Len(FrameItems(ws, Top(trav[a])))

\* the innermost _find_solidity_imports call returns
ReturnFrame ==
    /\ \E a \in Analyzers : CanReturnFrame(a)
    /\ trav' = [a \in Analyzers |->
                  IF CanReturnFrame(a) THEN return_frame(trav[a]) ELSE trav[a]]
    /\ UNCHANGED <<scanner, ws, debug, extensions, exclude, include, include_patterns,
                   exclude_patterns,
                   is_checking_primary, pc, changed_files, scan, primary_files, out,
                   prev, resolved, located>>

CanFinish(a) ==
    Running(a) /\ trav[a].stack = <<>> /\ trav[a].i > Len(primary_files)

\* find_dependencies removes the primary files, classifies, sorts and returns
FindDependenciesReturn ==
    /\ \E a \in Analyzers : CanFinish(a)
    /\ out' = [a \in Analyzers |->
                 IF CanFinish(a)
                 THEN [op |-> "find_dependencies",
                       value |-> finish_dependencies(ws, extensions, include_patterns[a],
                                     exclude_patterns[a], is_checking_primary[a],
                                     primary_files, trav[a])]
                 ELSE out[a]]
    /\ pc' = [a \in Analyzers |-> IF CanFinish(a) THEN "idle" ELSE pc[a]]
    /\ prev' = [a \in Analyzers |->
                  IF CanFinish(a)
                  THEN [called |-> TRUE, repeated |-> prev[a].called,
                        primary |-> primary_files, value |-> out'[a].value]
                  ELSE prev[a]]
    /\ UNCHANGED <<scanner, ws, debug, extensions, exclude, include, include_patterns,
                   exclude_patterns,
                   is_checking_primary, changed_files, scan, primary_files, trav,
                   resolved, located>>

\* _resolve_rust_import_path is called on its own, outside any traversal
ResolveRustImportPathCall(ref) ==
    /\ Idle
    /\ resolved' = [called |-> TRUE, import_path |-> ref.import_path,
                    current_file |-> ref.current_file,
                    value |-> resolve_rust_import_path(ws, ref.import_path,
                                                       PathOf(ws, ref.current_file))]
    /\ changed_files' = NoChange
    /\ scan' = [a \in Analyzers |-> NoScan]
    /\ primary_files' = <<>>
    /\ trav' = [a \in Analyzers |-> NewTraversal(ws)]
    /\ out' = [a \in Analyzers |-> NoOut]
    /\ located' = NoLocated
    /\ UNCHANGED <<scanner, ws, debug, extensions, exclude, include, include_patterns,
                   exclude_patterns,
                   is_checking_primary, pc, prev>>

\* _resolve_import_path is called on its own, outside any traversal
ResolveImportPathCall(ref) ==
    /\ Idle
    /\ located' = [called |-> TRUE, import_path |-> ref.import_path,
                   current_file |-> ref.current_file,
                   value |-> resolve_import_path(ws, ref.import_path,
                                                 PathOf(ws, ref.current_file))]
    /\ resolved' = NoResolved
    /\ changed_files' = NoChange
    /\ scan' = [a \in Analyzers |-> NoScan]
    /\ primary_files' = <<>>
    /\ trav' = [a \in Analyzers |-> NewTraversal(ws)]
    /\ out' = [a \in Analyzers |-> NoOut]
    /\ UNCHANGED <<scanner, ws, debug, extensions, exclude, include, include_patterns,
                   exclude_patterns,
                   is_checking_primary, pc, prev>>

CanScan == ~ scanner.written /\ scanner.pos <= Len(scanner.lines)

\* the loop of remove_inline_tests handles its next line
ScanLine ==
    /\ CanScan
    /\ scanner' = scan_line(scanner, scanner.lines[scanner.pos])
    /\ UNCHANGED analyzer_vars

\* remove_inline_tests rewrites the file with the lines it kept
WriteLines ==
    /\ ~ scanner.written /\ scanner.pos > Len(scanner.lines)
    /\ scanner' = [scanner EXCEPT !.written = TRUE, !.file = scanner.result_lines]
    /\ UNCHANGED analyzer_vars

Next ==
    \/ \E changed \in ChangeInputs(ws) : FindPrimaryFilesCall(changed)
    \/ PrimaryCheck
    \/ FindPrimaryFilesReturn
    \/ \E primary \in PrimaryInputs(ws) : FindDependenciesCall(primary)
    \/ ExpandPrimary
    \/ ProcessItem
    \/ ReturnFrame
    \/ FindDependenciesReturn
    \/ \E ref \in RustReferences(ws) : ResolveRustImportPathCall(ref)
    \/ \E ref \in ImportReferences(ws) : ResolveImportPathCall(ref)

Spec == Init /\ [][Next]_vars

\* remove_inline_tests is called on a file; no analyzer is in use
ScanInit ==
    /\ AnalyzerInit
    /\ ws = OutsideFiles /\ exclude = <<>> /\ include = << <<>>, <<>> >>
    /\ scanner \in {NewScanner(lines) : lines \in RustSources}

ScanNext == ScanLine \/ WriteLines

ScanSpec == ScanInit /\ [][ScanNext]_vars

\* a call in progress runs to its end: the code is sequential and never waits
FairSpec == Spec /\ WF_vars(Next)

(***************************************************************************)
(* Properties                                                              *)
(***************************************************************************)

\* find_dependencies has returned on analyzer a
DepsReturned(a) == out[a].op = "find_dependencies"

\* find_primary_files has returned on analyzer a
PrimaryReturned(a) == out[a].op = "find_primary_files"

IdOf(w, rel) == FileAt(w, InWs(rel))

\* C1: the list find_dependencies returns contains no file of the
\* primary_files list it was called with.
NoSelfInclusion ==
    \A a \in Analyzers :
        DepsReturned(a) => Range(out[a].value) \cap Range(primary_files) = {}

\* find_dependencies returned a non-empty list after a primary file had been
\* collected as a dependency (reached through an import of another primary file)
NoSelfInclusionWitness ==
    \E a \in Analyzers :
        /\ DepsReturned(a)
        /\ out[a].value # <<>>
        /\ trav[a].dependencies \cap Range(primary_files) # {}

\* the files the traversal from the first chain file collects: those at
\* import distance 1 .. MAX_DEPTH + 1
ChainCollected == 2..(MAX_DEPTH + 2)

\* find_dependencies has returned for the chain workspace, called on its first file
ChainReturned(a) ==
    DepsReturned(a) /\ ws = ChainFiles /\ primary_files = <<1>>

\* the largest number of references any file of the workspace holds
MaxItems(w) ==
    LET counts == {Len(SolidityItems(w[f].text)) : f \in FileIds(w)}
    IN  CHOOSE n \in counts : \A m \in counts : m <= n

RECURSIVE PendingWork(_, _)
\* the loop iterations and returns the active calls still have to make
PendingWork(w, stack) ==
    IF stack = <<>> THEN 0
    ELSE (Len(FrameItems(w, stack[1])) + 2 - stack[1].k) + PendingWork(w, Tail(stack))

\* a bound on the steps a running find_dependencies call has left: every
\* file not yet visited may still be entered once and worked through
StepsLeft(w, primary, t) ==
    Cardinality(FileIds(w) \ t.visited) * (MaxItems(w) + 2)
    + PendingWork(w, t.stack)
    + (Len(primary) + 1 - t.i)

ReadAtMostOnce ==
    /\ [](\A a \in Analyzers : \A f \in FileIds(ws) : trav[a].reads[f] <= 1)
    /\ [][\A a \in Analyzers :
            Running(a) => trav[a].visited \subseteq trav'[a].visited]_vars

\* a file that two other files import (and that imports a primary file back)
\* has been opened, with both of its importers visited, in a call on two
\* primary files
ReadAtMostOnceWitness ==
    \E a \in Analyzers :
        /\ DepsReturned(a) /\ ws = DiamondFiles
        /\ Len(primary_files) = 2
        /\ trav[a].reads[IdOf(ws, pD)] = 1
        /\ {IdOf(ws, pB), IdOf(ws, pC)} \subseteq trav[a].visited

\* some glob of the list that is not whitespace-only, compiled, is found in
\* the workspace-relative path of file f
GlobMatches(globs, f) ==
    \E j \in 1..Len(globs) :
        /\ StripNonEmpty(globs[j])
        /\ Search(glob_to_regex(globs[j]), RelPath(PathOf(ws, f)))

\* no glob of the list is left once the whitespace-only ones are discarded
NoneConfigured(globs) == \A j \in 1..Len(globs) : ~ StripNonEmpty(globs[j])

HasConfiguredExtension(f) == ~ ExtensionRejects(extensions, PathOf(ws, f))

\* file f gets past the extension check and the exclude loop of analyzer a
PassesExtensionAndExclude(a, f) ==
    /\ HasConfiguredExtension(f)
    /\ ~ AnySearch(exclude_patterns[a], RelPath(PathOf(ws, f)))

\* the dependencies collected by the traversal that are not primary files
Collected(a) == trav[a].dependencies \ Range(primary_files)

Returned(a) == Range(out[a].value)

\* C4: with an empty exclude list no path is rejected because of excludes:
\* a file with a configured extension is accepted in dependency mode, and in
\* primary mode too when no include pattern is configured.
EmptyExcludeMatchesNothing ==
    \A a \in Analyzers :
        exclude = <<>> =>
            /\ DepsReturned(a) =>
                   \A d \in Collected(a) : HasConfiguredExtension(d) => d \in Returned(a)
            /\ (PrimaryReturned(a) /\ include[a] = <<>>) =>
                   \A f \in Range(scan[a].files) :
                       HasConfiguredExtension(f) => f \in Returned(a)

\* the files one file refers to directly: what its references resolve to
Refs(w, f) ==
    LET text == w[f].text
        items == SolidityItems(text)
        suffix == Suffix(PathOf(w, f))
        target(item) ==
            IF item.k = "base"
            THEN FirstFresh(w, NewTraversal(w), InheritanceCandidates(item.ref), PathOf(w, f))
            ELSE resolve_import_path(w, item.ref, PathOf(w, f))
    IN  IF suffix = extSol THEN {target(items[j]) : j \in 1..Len(items)} \ {NoFile}
        ELSE IF suffix = extRs THEN find_rust_imports(w, f)
        ELSE {}

\* C5: the collected dependency set is transitive for .sol and .rs files
\* alike: what a reference of a primary file refers to is collected too.
TransitiveDependencies ==
    \A a \in Analyzers :
        DepsReturned(a) =>
            \A p \in Range(primary_files) :
                \A d \in Refs(ws, p) :
                    \A e \in Refs(ws, d) \ Range(primary_files) :
                        e \in trav[a].dependencies

\* C6: the compiled form of `tests/**/*.sol` matches tests/unit/Foo.sol and
\* tests/Foo.sol (`**/` stands for zero or more whole path segments).
DoubleStarMatchesSegments ==
    \A a \in Analyzers :
        include[a] = <<gTestsAnySol>> =>
            /\ AnySearch(include_patterns[a], pTestsUnitFoo)
            /\ AnySearch(include_patterns[a], pTestsFoo)

\* find_primary_files has returned from a walk of the whole workspace
WalkReturned(a) == PrimaryReturned(a) /\ ~ changed_files.given

\* C7: the compiled form of `*/mocks/*` does not match mocks/Mock.sol and
\* matches contracts/mocks/Mock.sol, as an include and as an exclude
\* pattern; a walk classifies the two files accordingly.
SingleStarNeedsSegment ==
    \A a \in Analyzers :
        /\ include[a] = <<gAnyMocksAny>> =>
               /\ ~ AnySearch(include_patterns[a], pMocksMock)
               /\ AnySearch(include_patterns[a], pContractsMocksMock)
        /\ exclude = <<gAnyMocksAny>> =>
               /\ ~ AnySearch(exclude_patterns[a], pMocksMock)
               /\ AnySearch(exclude_patterns[a], pContractsMocksMock)
        /\ (WalkReturned(a) /\ ws = GlobFiles /\ exclude = <<gAnyMocksAny>>) =>
               /\ IdOf(ws, pContractsMocksMock) \notin Returned(a)
               /\ (include[a] = <<>> => IdOf(ws, pMocksMock) \in Returned(a))
        /\ (WalkReturned(a) /\ ws = GlobFiles /\ exclude = <<gNoMatch>>
                /\ include[a] = <<gAnyMocksAny>>) =>
               out[a].value = <<IdOf(ws, pContractsMocksMock)>>

\* a walk with `*/mocks/*` as the exclude pattern has kept mocks/Mock.sol
\* and dropped contracts/mocks/Mock.sol
SingleStarNeedsSegmentWitness ==
    \E a \in Analyzers :
        /\ WalkReturned(a) /\ ws = GlobFiles
        /\ exclude = <<gAnyMocksAny>>
        /\ IdOf(ws, pMocksMock) \in Returned(a)
        /\ IdOf(ws, pContractsMocksMock) \notin Returned(a)

\* the include decision of the claim: no include pattern configured, or one
\* of them matches
IncludeAdmits(a, f) == NoneConfigured(include[a]) \/ GlobMatches(include[a], f)

\* C8: in primary mode a path that passed the extension and exclude checks
\* is accepted iff no include pattern is configured or one matches; every
\* file find_primary_files returns passed the checks and satisfies this.
PrimaryAcceptance ==
    \A a \in Analyzers :
        PrimaryReturned(a) =>
            /\ \A f \in Range(scan[a].files) :
                   PassesExtensionAndExclude(a, f) =>
                       (f \in Returned(a) <=> IncludeAdmits(a, f))
            /\ \A f \in Returned(a) :
                   PassesExtensionAndExclude(a, f) /\ IncludeAdmits(a, f)

\* find_primary_files has returned with include patterns configured, one
\* scanned file accepted by them and another, past the extension and
\* exclude checks, rejected by them
PrimaryAcceptanceWitness ==
    \E a \in Analyzers :
        /\ PrimaryReturned(a)
        /\ ~ NoneConfigured(include[a])
        /\ Returned(a) # {}
        /\ \E f \in Range(scan[a].files) :
               PassesExtensionAndExclude(a, f) /\ f \notin Returned(a)

\* C9: find_dependencies returns the same list on two analyzers that differ
\* only in their include patterns, and every collected dependency that
\* passes the extension and exclude checks is returned, whatever the
\* include patterns.
DependenciesIgnoreInclude ==
    /\ \A a, b \in Analyzers :
           (DepsReturned(a) /\ DepsReturned(b)) => out[a].value = out[b].value
    /\ \A a \in Analyzers :
           DepsReturned(a) =>
               \A d \in Collected(a) :
                   PassesExtensionAndExclude(a, d) => d \in Returned(a)

\* find_dependencies has returned, on analyzers with different include
\* patterns, a dependency that no include pattern of one of them matches
DependenciesIgnoreIncludeWitness ==
    \E a, b \in Analyzers :
        /\ DepsReturned(a) /\ DepsReturned(b)
        /\ include[a] # include[b]
        /\ ~ NoneConfigured(include[a])
        /\ \E d \in Returned(a) : ~ GlobMatches(include[a], d)

\* C10: no list returned by find_primary_files or find_dependencies holds a
\* path that an exclude pattern matches, also when an include pattern
\* matches it too.
ExcludePrecedence ==
    \A a \in Analyzers :
        out[a].op # "none" => \A f \in Returned(a) : ~ GlobMatches(exclude, f)

\* find_primary_files has scanned a file matched by an exclude and by an
\* include pattern, and returned without it
ExcludePrecedenceWitness ==
    \E a \in Analyzers :
        /\ PrimaryReturned(a)
        /\ \E f \in Range(scan[a].files) :
               /\ HasConfiguredExtension(f)
               /\ GlobMatches(exclude, f)
               /\ GlobMatches(include[a], f)
               /\ f \notin Returned(a)

\* the path of file f ends, case-insensitively, with a configured extension
EndsWithExtension(f) ==
    \E j \in 1..Len(extensions) : EndsWith(Lower(PathOf(ws, f)), Lower(extensions[j]))

\* C11: with a non-empty extension list every path find_primary_files or
\* find_dependencies returns ends, case-insensitively, with a configured
\* extension; with extensions [".sol"] no collected .rs file is in the list
\* find_dependencies returns.
ExtensionFilter ==
    \A a \in Analyzers :
        /\ (out[a].op # "none" /\ extensions # <<>>) =>
               \A f \in Returned(a) : EndsWithExtension(f)
        /\ (DepsReturned(a) /\ extensions = <<extSol>>) =>
               \A d \in Collected(a) : Suffix(PathOf(ws, d)) = extRs => d \notin Returned(a)

\* with extensions [".sol"], find_dependencies has collected the .rs file a
\* .sol file imports, no exclude pattern matches it, and it is not returned
ExtensionFilterWitness ==
    \E a \in Analyzers :
        /\ DepsReturned(a) /\ ws = RustFiles /\ extensions = <<extSol>>
        /\ IdOf(ws, pRsA) \in Collected(a)
        /\ ~ AnySearch(exclude_patterns[a], RelPath(PathOf(ws, IdOf(ws, pRsA))))
        /\ IdOf(ws, pRsA) \notin Returned(a)

\* the classifier of analyzer a, in primary mode, accepts file f
PrimaryAccepts(a, f) ==
    should_include_file(extensions, include_patterns[a], exclude_patterns[a],
                        "True", PathOf(ws, f))

\* C12: when a change list is passed to find_primary_files, the empty list
\* included, the result is the sub-sequence of that list, in its order, the
\* classifier accepts in primary mode; the workspace is walked only when no
\* list is passed.
ExplicitChangeList ==
    \A a \in Analyzers :
        /\ pc[a] = "find_primary_files" =>
               (scan[a].files = changed_files.files <=> changed_files.given)
        /\ (PrimaryReturned(a) /\ changed_files.given) =>
               out[a].value = SelectSeq(changed_files.files,
                                        LAMBDA f : PrimaryAccepts(a, f))

\* C13: a find_dependencies call on the primary files of the preceding
\* find_dependencies call of the same analyzer returns the list that call
\* returned, whatever the first call and a find_primary_files call in
\* between left in the analyzer.
Idempotence ==
    [][\A a \in Analyzers :
          (CanFinish(a) /\ prev[a].called /\ prev[a].primary = primary_files) =>
              out'[a].value = prev[a].value]_vars

\* find_dependencies has returned a non-empty list for the second time on
\* the same primary files, after a find_primary_files call had set the mode
\* flag in between
IdempotenceWitness ==
    \E a \in Analyzers :
        /\ DepsReturned(a)
        /\ prev[a].repeated /\ prev[a].primary = primary_files
        /\ is_checking_primary[a] = "False"
        /\ out[a].value # <<>>

\* path p comes strictly before path q: the lexicographic order of their
\* segment lists, segments compared as strings
StrictlyBefore(p, q) == PartsLess(PathParts(p), PathParts(q))

\* C14: the list find_dependencies returns is strictly increasing in path
\* order: sorted, and no path occurs twice.
SortedDependencies ==
    \A a \in Analyzers :
        DepsReturned(a) =>
            \A i, j \in 1..Len(out[a].value) :
                i < j => StrictlyBefore(PathOf(ws, out[a].value[i]),
                                        PathOf(ws, out[a].value[j]))

\* find_dependencies has returned at least three files, among them one that
\* two files import and one that two import patterns match
SortedDependenciesWitness ==
    \E a \in Analyzers :
        /\ DepsReturned(a) /\ ws = DiamondFiles
        /\ Len(out[a].value) >= 3
        /\ {IdOf(ws, pC), IdOf(ws, pD)} \subseteq Returned(a)

\* the files of the workspace that cannot be read
UnreadableFiles == {f \in FileIds(ws) : ~ ws[f].readable}

\* C15: a file that cannot be read does not keep find_dependencies from
\* returning: after it was opened the call always has a next step; it
\* contributes no outgoing dependency (the file only it imports is never
\* collected), and the files the other references lead to are collected and,
\* when the classifier accepts them, returned.
UnreadableFile ==
    \A a \in Analyzers :
        /\ (Running(a) /\ trav[a].visited \cap UnreadableFiles # {}) =>
               CanExpand(a) \/ CanProcess(a) \/ CanReturnFrame(a) \/ CanFinish(a)
        /\ \A f \in UnreadableFiles :
               \A j \in 1..Len(trav[a].stack) : trav[a].stack[j].file # f
        /\ ws = VaultFiles => IdOf(ws, pSecret) \notin trav[a].dependencies
        /\ (DepsReturned(a) /\ ws = VaultFiles /\ IdOf(ws, pVault) \in Range(primary_files)) =>
               /\ {IdOf(ws, pOwnable), IdOf(ws, pLibUpper)} \subseteq trav[a].dependencies
               /\ \A d \in {IdOf(ws, pOwnable), IdOf(ws, pLibUpper)} :
                      ShouldInclude(a, d) => d \in Returned(a)

\* find_dependencies has returned after it opened the unreadable file, and
\* the list holds the file imported after the unreadable one
UnreadableFileWitness ==
    \E a \in Analyzers :
        /\ DepsReturned(a) /\ ws = VaultFiles
        /\ trav[a].reads[IdOf(ws, pBroken)] = 1
        /\ IdOf(ws, pBroken) \in trav[a].dependencies
        /\ IdOf(ws, pLibUpper) \in Returned(a)

\* no candidate location of the reference holds a file
Unresolvable(item, file) ==
    \A j \in 1..Len(IF item.k = "base" THEN InheritanceCandidates(item.ref)
                    ELSE <<item.ref>>) :
        resolve_import_path(ws,
                            (IF item.k = "base" THEN InheritanceCandidates(item.ref)
                             ELSE <<item.ref>>)[j],
                            PathOf(ws, file)) = NoFile

\* the reference the innermost _find_solidity_imports call of analyzer a
\* handles next
NextItem(a) == FrameItems(ws, Top(trav[a]))[Top(trav[a]).k]

\* C16: for `contract Vault is Ownable, Pausable` with a sibling Ownable.sol
\* and no file for Pausable, the set of the Vault file holds Ownable.sol;
\* a base or import that resolves to no file adds nothing, and the call
\* moves on to the next reference of the same file.
UnresolvedReferenceOmitted ==
    /\ [](\A a \in Analyzers :
            /\ NoFile \notin trav[a].dependencies
            /\ (DepsReturned(a) /\ ws = VaultFiles
                    /\ IdOf(ws, pVault) \in Range(primary_files)) =>
                   IdOf(ws, pOwnable) \in trav[a].dependencies)
    /\ [][\A a \in Analyzers :
            (CanProcess(a) /\ Unresolvable(NextItem(a), Top(trav[a]).file)) =>
                trav'[a] = [trav[a] EXCEPT !.stack[Len(trav[a].stack)].k = @ + 1]]_vars

\* the call on the Vault file has returned Ownable.sol and the file imported
\* after the unresolvable base and the unresolvable import
UnresolvedReferenceOmittedWitness ==
    \E a \in Analyzers :
        /\ DepsReturned(a) /\ ws = VaultFiles /\ primary_files = <<IdOf(ws, pVault)>>
        /\ Unresolvable([k |-> "base", ref |-> nPausable], IdOf(ws, pVault))
        /\ Unresolvable([k |-> "import", ref |-> rDotMissing], IdOf(ws, pVault))
        /\ {IdOf(ws, pOwnable), IdOf(ws, pLibUpper)} \subseteq Returned(a)

\* the file lies below the directory that holds pkg/Cargo.toml
UnderPackageRoot(f) == StartsWith(PathOf(ws, f), Parent(InWs(pPkgCargo)) \o Slash)

\* C17: resolving `crate::utils::helpers` from a file under the package root,
\* with utils/helpers.rs and utils/mod.rs both on disk, returns a set that
\* holds both files: the file found for every segment of the walk is
\* reported, not only the file of the last segment.
ModulePathWalk ==
    (/\ resolved.called /\ ws = CrateFiles
     /\ resolved.import_path = mCrateUtilsHelpers
     /\ UnderPackageRoot(resolved.current_file)) =>
        {IdOf(ws, pPkgUtilsMod), IdOf(ws, pPkgHelpers)} \subseteq resolved.value

ModulePathWalkWitness ==
    /\ resolved.called /\ ws = CrateFiles
    /\ resolved.import_path = mCrateUtilsHelpers
    /\ resolved.current_file = IdOf(ws, pPkgMain)
    /\ resolved.value = {IdOf(ws, pPkgUtilsMod), IdOf(ws, pPkgHelpers)}
\* every file is a .sol file and each of its import statements names a file
\* of the workspace
ImportsResolve(w) ==
    \A f \in FileIds(w) :
        /\ Suffix(PathOf(w, f)) = extSol
        /\ \A j \in 1..Len(SolidityItems(w[f].text)) :
               SolidityItems(w[f].text)[j].k # "base" =>
                   resolve_import_path(w, SolidityItems(w[f].text)[j].ref, PathOf(w, f)) # NoFile

RECURSIVE WithinDistance(_, _, _)
\* the files at import distance at most n from a file of S
WithinDistance(w, S, n) ==
    IF n = 0 THEN S
    ELSE LET Step(R) == R \cup UNION {Refs(w, f) : f \in R}
         IN  Step(WithinDistance(w, S, n - 1))

\* C18: when all files are .sol files whose imports resolve, every
\* non-primary file at import distance 1..10 from some primary file that the
\* classifier accepts is in the list find_dependencies returns, whatever the
\* order of the primary files and of the imports.
BoundedReachability ==
    \A a \in Analyzers :
        (DepsReturned(a) /\ ImportsResolve(ws)) =>
            \A f \in WithinDistance(ws, Range(primary_files), MAX_DEPTH)
                        \ Range(primary_files) :
                ShouldInclude(a, f) => f \in Returned(a)
\* analyzer a marks a file visited and opens it in this step
MarksVisited(a) == trav'[a].visited # trav[a].visited

\* C19: a primary file is expanded at depth 0 and a file expanded while a
\* file at depth d is processed is expanded at depth d + 1, so the j-th
\* nested _find_solidity_imports call works on a file at depth j - 1 and
\* carries depth j; no file is marked visited or read at a depth above 10.
DepthAccounting ==
    /\ [](\A a \in Analyzers :
            \A j \in 1..Len(trav[a].stack) :
                trav[a].stack[j].depth = j /\ j - 1 <= MAX_DEPTH)
    /\ [][\A a \in Analyzers :
            /\ (CanExpand(a) /\ MarksVisited(a)) =>
                   (trav'[a].stack # <<>> => Top(trav'[a]).depth = 0 + 1)
            /\ (CanProcess(a) /\ MarksVisited(a)) =>
                   /\ Top(trav[a]).depth <= MAX_DEPTH
                   /\ Len(trav'[a].stack) > Len(trav[a].stack) =>
                          Top(trav'[a]).depth = Top(trav[a]).depth + 1]_vars

\* the file at depth 10 has been expanded and the file it imports, at depth
\* 11, has been collected without being marked visited
DepthAccountingWitness ==
    \E a \in Analyzers :
        /\ Running(a) /\ Len(trav[a].stack) = MAX_DEPTH + 1
        /\ Top(trav[a]).deps # {}
        /\ Top(trav[a]).deps \cap trav[a].visited = {}
        /\ Cardinality(trav[a].visited) = MAX_DEPTH + 1
\* the statement is `use crate::...;`
UsesCrate(st) == st.k = "use" /\ st.form = "" /\ StartsWith(st.ref, sCrate \o sColons)

\* C20: for a `use crate::a::b` statement of a .rs file, dependency
\* extraction resolves the segments a, b from the nearest ancestor directory
\* that holds Cargo.toml (the workspace root when there is none), so the
\* files found on that walk are among the collected dependencies of the file.
EnclosingPackageRoot ==
    \A a \in Analyzers :
        DepsReturned(a) =>
            \A p \in Range(primary_files) :
                Suffix(PathOf(ws, p)) = extRs =>
                    \A j \in 1..Len(ws[p].text) :
                        UsesCrate(ws[p].text[j]) =>
                            RustWalk(ws, Tail(SplitColons(ws[p].text[j].ref)),
                                     find_cargo_root(ws, PathOf(ws, p)), {})
                                \subseteq trav[a].dependencies
RECURSIVE LeadingSupers(_)
\* the number of consecutive `super` segments a module path starts with
LeadingSupers(parts) ==
    IF parts # <<>> /\ parts[1] = sSuper THEN 1 + LeadingSupers(Tail(parts)) ELSE 0

\* C21: for a `use` statement whose module path starts with k >= 1 `super`
\* segments, dependency extraction resolves the remaining segments starting
\* k directories above the directory of the referencing file, so the files
\* found on that walk are among the collected dependencies of the file.
ParentModuleAscent ==
    \A a \in Analyzers :
        DepsReturned(a) =>
            \A p \in Range(primary_files) :
                Suffix(PathOf(ws, p)) = extRs =>
                    \A j \in 1..Len(ws[p].text) :
                        (/\ ws[p].text[j].k = "use" /\ ws[p].text[j].form = ""
                         /\ LeadingSupers(SplitColons(ws[p].text[j].ref)) >= 1) =>
                            RustWalk(ws,
                                     Drop(SplitColons(ws[p].text[j].ref),
                                          LeadingSupers(SplitColons(ws[p].text[j].ref))),
                                     Ascend(Parent(PathOf(ws, p)),
                                            LeadingSupers(SplitColons(ws[p].text[j].ref))),
                                     {})
                                \subseteq trav[a].dependencies
\* the file of the highest-ranked candidate that resolves to an existing
\* file, NoFile when no candidate resolves
FirstExisting(item, file) ==
    FirstFresh(ws, NewTraversal(ws), InheritanceCandidates(item.ref), PathOf(ws, file))

\* C22: for each base name the candidates are tried in rank order and the
\* search stops at the first that resolves to an existing file: handling a
\* base name adds no file other than that one to the dependency set, also
\* when that file was visited earlier in the same build.
InheritanceCandidateOrder ==
    [][\A a \in Analyzers :
        (CanProcess(a) /\ NextItem(a).k = "base") =>
            trav'[a].stack[Len(trav[a].stack)].deps \ Top(trav[a]).deps
                \subseteq {FirstExisting(NextItem(a), Top(trav[a]).file)}]_vars
\* the directories a non-relative import string is looked up in, in rank order
SearchBases(file) ==
    << WorkspaceDir,
       InWs(sSrc), InWs(sContracts), InWs(sInterfaces), InWs(sLib),
       Parent(PathOf(ws, file)),
       Parent(Parent(PathOf(ws, file))),
       Parent(PathOf(ws, file)) \o Slash \o sInterfaces,
       Parent(PathOf(ws, file)) \o Slash \o sLibraries >>

\* the regular file a directory holds for a name: the name itself, else the
\* name with `.sol` appended when it does not end with `.sol`
AtBase(base, name) ==
    IF FileAt(ws, base \o Slash \o name) # NoFile THEN FileAt(ws, base \o Slash \o name)
    ELSE IF ~ EndsWith(name, extSol) THEN FileAt(ws, base \o Slash \o name \o extSol)
    ELSE NoFile

\* the ranks of the directories that hold a file for the name
Hits(file, name) ==
    {i \in 1..Len(SearchBases(file)) : AtBase(SearchBases(file)[i], name) # NoFile}

\* C23: an import string that begins with neither `./` nor `../` resolves to
\* the first existing regular file in the order workspace root, src,
\* contracts, interfaces, lib, the directory of the referencing file, its
\* parent, its interfaces and its libraries directory, the `.sol` retry of a
\* place coming before the next place; a name found at the workspace root
\* and beside the referencing file resolves to the workspace-root file.
NonRelativeResolutionOrder ==
    (/\ located.called
     /\ ~ StartsWith(located.import_path, <<".", "/">>)
     /\ ~ StartsWith(located.import_path, <<".", ".", "/">>)
     /\ Hits(located.current_file, located.import_path) # {}) =>
        located.value =
            AtBase(SearchBases(located.current_file)
                       [Min(Hits(located.current_file, located.import_path))],
                   located.import_path)

NonRelativeResolutionOrderWitness ==
    /\ located.called /\ ws = ResolverFiles
    /\ located.import_path = iUtil
    /\ located.current_file = IdOf(ws, pRef)
    /\ located.value = IdOf(ws, pSrcUtil)
    /\ IdOf(ws, pHereUtil) # NoFile
\* the place a string with one leading `./` or `../` names, seen from the
\* directory of the referencing file
RelativeTarget(file, name) ==
    IF StartsWith(name, <<".", "/">>)
    THEN Parent(PathOf(ws, file)) \o Slash \o Drop(name, 2)
    ELSE Parent(Parent(PathOf(ws, file))) \o Slash \o Drop(name, 3)

\* C24: an import string that begins with `./` or `../` is resolved against
\* the directory of the referencing file only: the result is the regular
\* file there (with `.sol` appended when the name lacks it), and not-found
\* when there is none, also when a file of that name lies at the workspace
\* root or in a conventional directory.
RelativeResolution ==
    (/\ located.called
     /\ \/ StartsWith(located.import_path, <<".", "/">>)
        \/ StartsWith(located.import_path, <<".", ".", "/">>)) =>
        located.value =
            IF FileAt(ws, RelativeTarget(located.current_file, located.import_path)) # NoFile
            THEN FileAt(ws, RelativeTarget(located.current_file, located.import_path))
            ELSE IF ~ EndsWith(located.import_path, extSol)
                 THEN FileAt(ws, RelativeTarget(located.current_file, located.import_path)
                                     \o extSol)
                 ELSE NoFile

RelativeResolutionWitness ==
    /\ located.called /\ ws = ResolverFiles
    /\ located.import_path = iDotOnly
    /\ located.current_file = IdOf(ws, pRef)
    /\ located.value = NoFile
    /\ IdOf(ws, pRootOnly) # NoFile /\ IdOf(ws, pContractsOnly) # NoFile
\* the pattern list without its whitespace-only entries
WithoutBlank(patterns) == SelectSeq(patterns, StripNonEmpty)

\* the classification of file f by an analyzer built like analyzer a but on
\* the pattern lists without their whitespace-only entries
ClassifiedWithoutBlank(a, f) ==
    should_include_file(extensions, compile_patterns(WithoutBlank(include[a])),
                        compile_patterns(WithoutBlank(exclude)),
                        is_checking_primary[a], PathOf(ws, f))

\* C25: whitespace-only patterns are discarded: every classification made
\* with an include and an exclude list gives the result classification with
\* the lists without their whitespace-only entries gives, also when a list
\* holds whitespace-only entries only.
WhitespaceDiscarded ==
    \A a \in Analyzers :
        /\ DepsReturned(a) =>
               \A d \in Collected(a) : d \in Returned(a) <=> ClassifiedWithoutBlank(a, d)
        /\ PrimaryReturned(a) =>
               \A f \in Range(scan[a].files) :
                   f \in Returned(a) <=>
                       should_include_file(extensions,
                                           compile_patterns(WithoutBlank(include[a])),
                                           compile_patterns(WithoutBlank(exclude)),
                                           "True", PathOf(ws, f))
\* analyzers a and b are built on the same filters and differ in the debug flag
DifferInDebugOnly(a, b) == debug[a] # debug[b] /\ include[a] = include[b]

PrimaryFlagDiscipline ==
    /\ [](\A a \in Analyzers :
            pc[a] # "find_primary_files" => is_checking_primary[a] # "True")
    /\ [][\A a \in Analyzers :
            Running(a) => is_checking_primary'[a] = is_checking_primary[a]]_vars

\* a find_primary_files call has left by an exception and the flag is cleared
PrimaryFlagDisciplineWitness ==
    \E a \in Analyzers :
        /\ out[a].op = "ValueError" /\ pc[a] = "idle"
        /\ is_checking_primary[a] = "False"

\* C29: find_primary_files with an explicit change list returns the same
\* list with debug enabled as with debug disabled and raises in neither
\* case, also for a change list with a path outside the workspace root.
ChangeListDebug ==
    \A a, b \in Analyzers :
        (/\ DifferInDebugOnly(a, b)
         /\ Idle /\ changed_files.given /\ out[a].op # "none") =>
            out[a].op = "find_primary_files" /\ out[a] = out[b]
RECURSIVE RunTraversal(_, _, _)
\* the state in which the loop of find_dependencies over the list primary
\* ends when it is run from state t
RunTraversal(w, primary, t) ==
    IF t.stack = <<>>
    THEN IF t.i > Len(primary) THEN t
         ELSE RunTraversal(w, primary, expand_primary(w, primary, t))
    ELSE IF Top(t).k <= Len(FrameItems(w, Top(t)))
         THEN RunTraversal(w, primary, process_item(w, t))
         ELSE RunTraversal(w, primary, return_frame(t))

\* the list in the opposite order
Reversed(list) == [j \in 1..Len(list) |-> list[Len(list) - j + 1]]

\* what find_dependencies returns on analyzer a for the list primary
DependenciesOf(a, primary) ==
    finish_dependencies(ws, extensions, include_patterns[a], exclude_patterns[a],
                        is_checking_primary[a], primary,
                        RunTraversal(ws, primary, NewTraversal(ws)))

\* C28: the list find_dependencies returns depends on the set of primary
\* files only: called with the same files in another order it returns the
\* same list.
OrderIndependence ==
    \A a \in Analyzers :
        DepsReturned(a) => out[a].value = DependenciesOf(a, Reversed(primary_files))
RECURSIVE DepthAfter(_, _, _)
\* the balance of the braces of lines i + 1 .. j
DepthAfter(lines, i, j) ==
    IF j <= i THEN 0
    ELSE DepthAfter(lines, i, j - 1) + Count(lines[j], "{") - Count(lines[j], "}")

\* the line on which the braces of the item annotated by the attribute of
\* line i balance, 0 when the file holds no such line
ItemEnd(lines, i) ==
    LET ends == {j \in (i + 1)..Len(lines) :
                    /\ \E k \in (i + 1)..j : Count(lines[k], "{") > 0
                    /\ DepthAfter(lines, i, j) = 0
                    /\ \A k \in (i + 1)..j : DepthAfter(lines, i, k) >= 0}
    IN  IF ends = {} THEN 0 ELSE Min(ends)

RECURSIVE WithoutTests(_, _)
\* the lines from line i on that belong to no annotated item (kept), and
\* whether every test attribute met annotates an item of the file (ok)
WithoutTests(lines, i) ==
    IF i > Len(lines) THEN [kept |-> <<>>, ok |-> TRUE]
    ELSE IF IsTestAttribute(lines[i])
    THEN IF ItemEnd(lines, i) = 0 THEN [kept |-> <<>>, ok |-> FALSE]
         ELSE WithoutTests(lines, ItemEnd(lines, i) + 1)
    ELSE [kept |-> <<lines[i]>> \o WithoutTests(lines, i + 1).kept,
          ok |-> WithoutTests(lines, i + 1).ok]

\* C30: remove_inline_tests drops each test attribute line with every line
\* that follows up to and including the line on which the braces of the
\* annotated item balance and keeps every other line in order, also when
\* the line after the attribute holds no brace; the brace depth is 0
\* whenever the scanner is outside a test block.
InlineTestRemoval ==
    /\ ~ scanner.in_test_block => scanner.brace_depth = 0
    /\ (scanner.written /\ WithoutTests(scanner.lines, 1).ok) =>
           scanner.file = WithoutTests(scanner.lines, 1).kept
====
